---- MODULE Spec2Model ----
(***************************************************************************)
(* A model of the array-transformation engine of uiua: the copy-on-write   *)
(* buffer (src/src/cowslice.rs) as a state machine over handles and        *)
(* reference-counted stores, and the dyadic algorithms                     *)
(* (src/src/algorithm/dyadic/mod.rs, structure.rs) as operators over       *)
(* [shape, data] records, applied by one action per operation.             *)
(***************************************************************************)
EXTENDS Integers, Sequences, FiniteSets, TLC

(***************************************************************************)
(* Bounds of the model.                                                    *)
(***************************************************************************)
\* number of CowSlice handles alive at once
MaxHandles == 2
\* longest backing store of a CowSlice
MaxLen == 2
\* largest dimension of an input array
MaxDim == 2
\* largest number of entries, and longest axis, of an index array
MaxIdxCount == 3
\* the greatest rank of an array operand
MaxRank == 2
\* the greatest rank of an index array
MaxIdxRank == 3

VARIABLES
    hs,       \* CowSlice handles: handle -> [data, start, end] or NoHandle
    st,       \* EcoVec stores: store id -> [elems, alloc]
    cowLast,  \* the last CowSlice operation and what it saw before acting
    op,       \* the last array operation applied ("init" before any)
    arr,      \* the array operand
    ix,       \* the index / dims / offsets operand: [shape, data]
    sub,      \* the second array operand (an edited sub-array)
    fill,     \* the fill context: [ok, val], a fill value val when ok
    built,    \* the build the last undo operation ran in
    shp,      \* the shape operand of derive_shape
    res       \* the result of the last array operation

vars == <<hs, st, cowLast, op, arr, ix, sub, fill, built, shp, res>>
cowVars == <<hs, st, cowLast>>
arrVars == <<op, arr, ix, sub, fill, built, shp, res>>

(***************************************************************************)
(* Generic helpers.                                                        *)
(***************************************************************************)
Min(x, y) == IF x <= y THEN x ELSE y
Max(x, y) == IF x >= y THEN x ELSE y
Abs(x) == IF x >= 0 THEN x ELSE -x

RECURSIVE Product(_)
Product(s) == IF s = <<>> THEN 1 ELSE Head(s) * Product(Tail(s))

RECURSIVE Sum(_)
Sum(s) == IF s = <<>> THEN 0 ELSE Head(s) + Sum(Tail(s))

\* s[from+1 .. to] : the Rust slice s[from..to] of a 0-based sequence
Slice0(s, from, to) == SubSeq(s, from + 1, to)

Repeat(x, n) == [i \in 1..n |-> x]

RECURSIVE SeqsOfLen(_, _)
SeqsOfLen(S, n) ==
    IF n = 0 THEN {<<>>}
    ELSE {<<x>> \o t : x \in S, t \in SeqsOfLen(S, n - 1)}

SeqsUpTo(S, n) == UNION {SeqsOfLen(S, k) : k \in 0..n}

(***************************************************************************)
(* CowSlice<T>: a handle is an EcoVec reference plus a window [start,end). *)
(***************************************************************************)
\* the elements written or appended by the modelled callers
Elems == {0}
Handles == 1..MaxHandles
StoreIds == 1..(MaxHandles + 1)
NoHandle == [data |-> 0, start |-> 0, end |-> 0]
EmptyStore == [elems |-> <<>>, alloc |-> FALSE]
NoFn == [k |-> "none", xs |-> <<>>]
NoCowOp == [op |-> "none", h |-> 0, inPlace |-> FALSE, f |-> NoFn]

Live(h) == hs[h] # NoHandle

\* the elements handle h shows when the handles are H and the stores S
View(H, S, h) == Slice0(S[H[h].data].elems, H[h].start, H[h].end)

\* as_slice: &self.data[self.start..self.end]
as_slice(h) == View(hs, st, h)

HandleLen(h) == hs[h].end - hs[h].start

RefCount(id) == Cardinality({h \in Handles : hs[h].data = id})

\* EcoVec::is_unique: an unallocated vector is unique, an allocated one is
\* unique when its reference count is 1
is_unique(h) == (~ st[hs[h].data].alloc) \/ RefCount(hs[h].data) = 1

IsFull(h) == hs[h].start = 0 /\ hs[h].end = Len(st[hs[h].data].elems)

\* the smallest store id no handle refers to
FreshId == CHOOSE i \in StoreIds :
              /\ \A h \in Handles : hs[h].data # i
              /\ \A j \in StoreIds : (j < i) => (\E h \in Handles : hs[h].data = j)

\* Store ids stand for allocation addresses, which no operation observes
\* except for equality: they are renumbered in the order of the handles that
\* refer to them, and stores no handle refers to any more are freed.
RECURSIVE StoreOrder(_, _, _)
StoreOrder(hs2, h, acc) ==
    IF h > MaxHandles THEN acc
    ELSE IF hs2[h] = NoHandle \/ (\E k \in 1..Len(acc) : acc[k] = hs2[h].data)
         THEN StoreOrder(hs2, h + 1, acc)
         ELSE StoreOrder(hs2, h + 1, Append(acc, hs2[h].data))

Commit(hs2, st2) ==
    LET ord == StoreOrder(hs2, 1, <<>>)
    IN /\ hs' = [h \in Handles |->
                   IF hs2[h] = NoHandle THEN NoHandle
                   ELSE [hs2[h] EXCEPT
                           !.data = CHOOSE k \in 1..Len(ord) : ord[k] = hs2[h].data]]
       /\ st' = [j \in StoreIds |->
                   IF j <= Len(ord) THEN st2[ord[j]] ELSE EmptyStore]

\* EcoVec::clone: shares the allocation; an unallocated vector has none to share
CloneData(h) == IF st[hs[h].data].alloc THEN hs[h].data ELSE FreshId

\* what is remembered of the last operation: its name, the handle it acted on,
\* whether that handle still refers to the store it referred to before, and the
\* closure handed to modify
CowRecord(name, h, newData, f) ==
    [op |-> name, h |-> h, inPlace |-> (newData = hs[h].data), f |-> f]

\* CowSlice::from([1, 2, ..., n])
Iota(n) == [i \in 1..n |-> i]

CowInit ==
    /\ \E xs \in {Iota(n) : n \in 0..MaxLen} :
          /\ hs = [h \in Handles |->
                     IF h = 1 THEN [data |-> 1, start |-> 0, end |-> Len(xs)]
                     ELSE NoHandle]
          /\ st = [i \in StoreIds |->
                     IF i = 1 THEN [elems |-> xs, alloc |-> Len(xs) > 0]
                     ELSE EmptyStore]
    /\ cowLast = NoCowOp

\* impl Clone for CowSlice
Clone(h, h2) ==
    /\ Live(h) /\ ~ Live(h2)
    /\ UNCHANGED arrVars
    /\ Commit([hs EXCEPT ![h2] = [data |-> CloneData(h), start |-> hs[h].start,
                                  end |-> hs[h].end]], st)
    /\ cowLast' = CowRecord("clone", h2, 0, NoFn)

\* a handle goes out of scope: its EcoVec reference is released
DropHandle(h) ==
    /\ Live(h)
    /\ UNCHANGED arrVars
    /\ Commit([hs EXCEPT ![h] = NoHandle], st)
    /\ cowLast' = CowRecord("drop", h, 0, NoFn)

\* truncate measuring len from the start of the store, not of the window
truncate_FromStoreStart(h, len) ==
    /\ Live(h)
    /\ UNCHANGED arrVars
    /\ Commit([hs EXCEPT ![h].end = Min(len, hs[h].end)], st)
    /\ cowLast' = CowRecord("truncate", h, hs[h].data, NoFn)

\* CowSlice::truncate
truncate(h, len) ==
    /\ Live(h)
    /\ UNCHANGED arrVars
    /\ Commit([hs EXCEPT ![h].end = Min(hs[h].start + len, hs[h].end)], st)
    /\ cowLast' = CowRecord("truncate", h, hs[h].data, NoFn)

\* the closures handed to modify: extend_from_slice / extend / push, clear
ModifyFns ==
    {[k |-> "extend", xs |-> xs] : xs \in SeqsUpTo(Elems, 1)}
    \cup {[k |-> "clear", xs |-> <<>>]}

ApplyF(f, vec) == IF f.k = "extend" THEN vec \o f.xs ELSE <<>>

\* modify without the full-extent test: in place whenever the store is unique
ModifyResult_UniqueOnly(h, f) ==
    IF is_unique(h)
    THEN LET new == ApplyF(f, st[hs[h].data].elems)
             id == hs[h].data
         IN [handle |-> [data |-> id, start |-> 0, end |-> Len(new)],
             store |-> [elems |-> new,
                        alloc |-> st[id].alloc \/ Len(new) > 0]]
    ELSE LET vec == ApplyF(f, as_slice(h))
         IN [handle |-> [data |-> FreshId, start |-> 0, end |-> Len(vec)],
             store |-> [elems |-> vec, alloc |-> Len(as_slice(h)) > 0 \/ Len(vec) > 0]]

\* the state of handle h and of the stores after CowSlice::modify(f)
ModifyResult(h, f) ==
    IF is_unique(h) /\ hs[h].start = 0 /\ hs[h].end = Len(st[hs[h].data].elems)
    THEN LET new == ApplyF(f, st[hs[h].data].elems)
             id == hs[h].data
         IN [handle |-> [data |-> id, start |-> 0, end |-> Len(new)],
             store |-> [elems |-> new,
                        alloc |-> st[id].alloc \/ Len(new) > 0]]
    ELSE LET vec == ApplyF(f, as_slice(h))
         IN [handle |-> [data |-> FreshId, start |-> 0, end |-> Len(vec)],
             store |-> [elems |-> vec, alloc |-> Len(as_slice(h)) > 0 \/ Len(vec) > 0]]

ModifyStep(name, h, f) ==
    LET r == ModifyResult(h, f)
    IN /\ Live(h)
       /\ Len(r.store.elems) <= MaxLen
       /\ UNCHANGED arrVars
       /\ Commit([hs EXCEPT ![h] = r.handle], [st EXCEPT ![r.handle.data] = r.store])
       /\ cowLast' = CowRecord(name, h, r.handle.data, f)

\* CowSlice::modify
modify(h, f) == ModifyStep("modify", h, f)

\* CowSlice::extend_from_slice
extend_from_slice(h, xs) == ModifyStep("modify", h, [k |-> "extend", xs |-> xs])

\* as_mut_slice without the uniqueness test: always in place
AsMutResult_NoCopy(h) == [handle |-> hs[h], store |-> st[hs[h].data]]

\* as_mut_slice that also copies a uniquely owned partial view
AsMutResult_CopyPartial(h) ==
    IF ~ is_unique(h) \/ ~ IsFull(h)
    THEN [handle |-> [data |-> FreshId, start |-> 0, end |-> HandleLen(h)],
          store |-> [elems |-> as_slice(h), alloc |-> HandleLen(h) > 0]]
    ELSE [handle |-> hs[h], store |-> st[hs[h].data]]

\* the state of handle h and of the stores after CowSlice::as_mut_slice
AsMutResult(h) ==
    IF ~ is_unique(h)
    THEN [handle |-> [data |-> FreshId, start |-> 0, end |-> HandleLen(h)],
          store |-> [elems |-> as_slice(h), alloc |-> HandleLen(h) > 0]]
    ELSE [handle |-> hs[h], store |-> st[hs[h].data]]

\* CowSlice::as_mut_slice, then the caller's write of v at position i of the
\* returned slice (no write when the slice is empty)
as_mut_slice(h, i, v) ==
    LET r == AsMutResult(h)
        n == r.handle.end - r.handle.start
        written == IF i < n
                   THEN [r.store EXCEPT !.elems[r.handle.start + i + 1] = v]
                   ELSE r.store
    IN /\ Live(h)
       /\ (i < n \/ (n = 0 /\ i = 0))
       /\ UNCHANGED arrVars
       /\ Commit([hs EXCEPT ![h] = r.handle], [st EXCEPT ![r.handle.data] = written])
       /\ cowLast' = CowRecord("as_mut_slice", h, r.handle.data, NoFn)

\* the ranges slice() is called with: start and end bounds of each kind
Ranges ==
    {[sb |-> b[1], s |-> b[2], eb |-> c[1], e |-> c[2]] :
        b \in ({<<"Unbounded", 0>>} \cup ({"Included"} \X (0..MaxLen))),
        c \in ({<<"Unbounded", 0>>} \cup ({"Included", "Excluded"} \X (0..MaxLen)))}

SliceStart(h, r) ==
    CASE r.sb = "Included" -> hs[h].start + r.s
      [] r.sb = "Excluded" -> hs[h].start + r.s + 1
      [] OTHER -> hs[h].start

SliceEnd(h, r) ==
    CASE r.eb = "Included" -> hs[h].start + r.e + 1
      [] r.eb = "Excluded" -> hs[h].start + r.e
      [] OTHER -> hs[h].end

\* the assertions of slice() with the end checked against the store, not
\* against the window
SliceOk_AgainstStore(h, r) ==
    /\ SliceStart(h, r) <= SliceEnd(h, r)
    /\ SliceEnd(h, r) <= Len(st[hs[h].data].elems)

\* the two assertions of slice()
SliceOk(h, r) == SliceStart(h, r) <= SliceEnd(h, r) /\ SliceEnd(h, r) <= hs[h].end

\* CowSlice::slice: a new handle on the same store, or a panic that leaves
\* everything as it was
slice(h, r, h2) ==
    /\ Live(h) /\ ~ Live(h2)
    /\ UNCHANGED arrVars
    /\ IF SliceOk(h, r)
       THEN /\ Commit([hs EXCEPT ![h2] = [data |-> CloneData(h),
                                          start |-> SliceStart(h, r),
                                          end |-> SliceEnd(h, r)]], st)
            /\ cowLast' = CowRecord("slice", h2, 0, NoFn)
       ELSE /\ hs' = hs /\ st' = st
            /\ cowLast' = CowRecord("slice_panic", h, hs[h].data, NoFn)

CowNext ==
    \/ \E h, h2 \in Handles : Clone(h, h2)
    \/ \E h \in Handles : DropHandle(h)
    \/ \E h \in Handles, len \in 0..MaxLen : truncate(h, len)
    \/ \E h \in Handles, f \in ModifyFns : modify(h, f)
    \/ \E h \in Handles, xs \in SeqsUpTo(Elems, 1) : extend_from_slice(h, xs)
    \/ \E h \in Handles, i \in 0..(MaxLen - 1), v \in Elems : as_mut_slice(h, i, v)
    \/ \E h, h2 \in Handles, r \in Ranges : slice(h, r, h2)

(***************************************************************************)
(* Array<T>: a shape and its row-major data.  A result is an array         *)
(* (kind "ok"), an error value ("err"), an abort ("panic": a failed slice  *)
(* or element access, a zero chunk size, an arithmetic overflow caught by  *)
(* the build) or a failed validate_shape assertion ("assert").             *)
(***************************************************************************)
Arr(shape, data) == [shape |-> shape, data |-> data]
Ok(shape, data) == [kind |-> "ok", shape |-> shape, data |-> data]
Err == [kind |-> "err", shape |-> <<>>, data |-> <<>>]
Panic == [kind |-> "panic", shape |-> <<>>, data |-> <<>>]
AssertFailed == [kind |-> "assert", shape |-> <<>>, data |-> <<>>]
NoResult == [kind |-> "none", shape |-> <<>>, data |-> <<>>]
OkArr(a) == Ok(a.shape, a.data)
ArrOf(r) == Arr(r.shape, r.data)

rank(a) == Len(a.shape)
row_count(a) == IF a.shape = <<>> THEN 1 ELSE a.shape[1]
row_len(a) == IF a.shape = <<>> THEN 1 ELSE Product(Tail(a.shape))
element_count(a) == Len(a.data)

\* validate_shape: the assertion data.len() == product(shape)
validate_shape(r) ==
    IF r.kind = "ok" /\ Len(r.data) # Product(r.shape) THEN AssertFailed ELSE r

\* Array::new(shape, data): the constructor validates the shape
Array_new(shape, data) == validate_shape(Ok(shape, data))

\* row i (0-based) of an array of rank >= 1
Row(a, i) == Arr(Tail(a.shape), Slice0(a.data, i * row_len(a), (i + 1) * row_len(a)))

\* rows() / into_rows(): the rows in order
rows(a) == [i \in 1..row_count(a) |-> Row(a, i - 1)]

\* row_slices(): the data of each row
row_slices(a) ==
    [i \in 1..row_count(a) |-> Slice0(a.data, (i - 1) * row_len(a), i * row_len(a))]

RECURSIVE Concat(_)
Concat(ss) == IF ss = <<>> THEN <<>> ELSE Head(ss) \o Concat(Tail(ss))

\* from_row_arrays_infallible: stack rows of one shape; no rows give the
\* default array, of shape [0]
from_row_arrays_infallible(rs) ==
    IF rs = <<>> THEN Arr(<<0>>, <<>>)
    ELSE Arr(<<Len(rs)>> \o rs[1].shape, Concat([i \in 1..Len(rs) |-> rs[i].data]))

\* from_row_arrays: as above, an error when the rows differ in shape
from_row_arrays(rs) ==
    IF \E i \in 1..Len(rs) : rs[i].shape # rs[1].shape THEN Err
    ELSE OkArr(from_row_arrays_infallible(rs))

Reverse(s) == [i \in 1..Len(s) |-> s[Len(s) + 1 - i]]

\* chunks_exact(n): the full pieces only
chunks_exact(s, n) == [i \in 1..(Len(s) \div n) |-> Slice0(s, (i - 1) * n, i * n)]

\* slice.chunks(n) for n > 0: consecutive pieces of n elements, the last shorter
chunks(s, n) ==
    [i \in 1..((Len(s) + n - 1) \div n) |-> Slice0(s, (i - 1) * n, Min(i * n, Len(s)))]

(***************************************************************************)
(* reshape / rerank                                                        *)
(***************************************************************************)
NegCount(dims) == Cardinality({i \in 1..Len(dims) : dims[i] < 0})

\* the position of the leading bit of n >= 1
RECURSIVE Log2(_)
Log2(n) == IF n <= 1 THEN 0 ELSE 1 + Log2(n \div 2)

\* "n as f32": the nearest number with a 24-bit significand, ties to even
as_f32(n) ==
    IF n = 0 \/ Log2(n) <= 23 THEN n
    ELSE LET ulp == 2 ^ (Log2(n) - 23)
             lo == (n \div ulp) * ulp
             rem == n - lo
         IN IF 2 * rem < ulp THEN lo
            ELSE IF 2 * rem > ulp THEN lo + ulp
            ELSE IF (lo \div ulp) % 2 = 0 THEN lo ELSE lo + ulp

\* the f32 quotient a / b (b > 0) of two whole f32 numbers, rounded to a
\* 24-bit significand, as the pair <<floor, ceil>> of the rounded quotient
f32_div(a, b) ==
    LET q == a \div b
        r == a % b
    IN IF q = 0
       THEN <<IF b - a <= b \div (2 ^ 25) THEN 1 ELSE 0, IF a = 0 THEN 0 ELSE 1>>
       ELSE IF Log2(q) >= 23
       THEN LET ulp == 2 ^ (Log2(q) - 23)
                lo == (q \div ulp) * ulp
                t == (q - lo) * b + r
                v == IF 2 * t < ulp * b THEN lo
                     ELSE IF 2 * t > ulp * b THEN lo + ulp
                     ELSE IF (lo \div ulp) % 2 = 0 THEN lo ELSE lo + ulp
            IN <<v, v>>
       ELSE LET s == 2 ^ (23 - Log2(q))
            IN <<IF b - r <= b \div (2 * s) THEN q + 1 ELSE q,
                 IF r <= b \div (2 * s) THEN q ELSE q + 1>>

\* derive_len with exact integer division in place of the f32 one
derive_len_Exact(data_len, other_len, has_fill) ==
    IF has_fill THEN (data_len + other_len - 1) \div other_len
    ELSE data_len \div other_len

\* derive_len: f32::ceil(data_len as f32 / other_len as f32) with a fill
\* value, f32::floor without
derive_len(data_len, other_len, has_fill) ==
    f32_div(as_f32(data_len), as_f32(other_len))[IF has_fill THEN 2 ELSE 1]

\* derive_shape: the target shape, one negative dimension derived
derive_shape(shape, dims, has_fill) ==
    CASE NegCount(dims) = 0 -> Ok(dims, <<>>)
      [] NegCount(dims) = 1 ->
            IF dims[1] < 0
            THEN IF Product(Tail(dims)) = 0 THEN Err
                 ELSE Ok(<<derive_len(Product(shape), Product(Tail(dims)), has_fill)>>
                             \o Tail(dims), <<>>)
            ELSE IF dims[Len(dims)] < 0
            THEN LET front == SubSeq(dims, 1, Len(dims) - 1)
                 IN IF Product(front) = 0 THEN Err
                    ELSE Ok(front \o <<derive_len(Product(shape), Product(front),
                                                  has_fill)>>, <<>>)
            ELSE LET neg_index == CHOOSE i \in 1..Len(dims) : dims[i] < 0
                     front == SubSeq(dims, 1, neg_index - 1)
                     back == SubSeq(dims, neg_index + 1, Len(dims))
                 IN IF Product(front) = 0 \/ Product(back) = 0 THEN Err
                    ELSE Ok(front
                            \o <<derive_len(Product(shape),
                                            Product(front) * Product(back), has_fill)>>
                            \o back, <<>>)
      [] OTHER -> Err

\* the data of Array::reshape once the target shape is fixed, without "i % start"
ReshapeData_NoCycle(a, shape, fl) ==
    LET target_len == Product(shape)
        start == Len(a.data)
    IN IF start < target_len
       THEN IF fl.ok THEN Ok(shape, a.data \o Repeat(fl.val, target_len - start))
            ELSE IF start = 0
                 THEN IF \A i \in 1..Len(shape) : shape[i] # 0 THEN Err
                      ELSE Ok(shape, a.data)
                 ELSE IF rank(a) = 0 THEN Ok(shape, Repeat(a.data[1], target_len))
                 ELSE Ok(shape, a.data \o [i \in 1..(target_len - start) |->
                                               a.data[Min(i, start)]])
       ELSE Ok(shape, Slice0(a.data, 0, target_len))

\* the data of Array::reshape once the target shape is fixed
ReshapeData(a, shape, fl) ==
    LET target_len == Product(shape)
        start == Len(a.data)
    IN IF start < target_len
       THEN IF fl.ok THEN Ok(shape, a.data \o Repeat(fl.val, target_len - start))
            ELSE IF start = 0
                 THEN IF \A i \in 1..Len(shape) : shape[i] # 0 THEN Err
                      ELSE Ok(shape, a.data)
                 ELSE IF rank(a) = 0 THEN Ok(shape, Repeat(a.data[1], target_len))
                 ELSE Ok(shape, a.data \o [i \in 1..(target_len - start) |->
                                               a.data[((i - 1) % start) + 1]])
       ELSE Ok(shape, Slice0(a.data, 0, target_len))

\* Array::reshape
reshape(a, dims, fl) ==
    LET sh == derive_shape(a.shape, dims, fl.ok)
    IN IF sh.kind # "ok" THEN Err
       ELSE validate_shape(ReshapeData(a, sh.shape, fl))

\* reshape_scalar that prepends the count and leaves the data as it is
reshape_scalar_NoRepeat(a, count) == Ok(<<count>> \o a.shape, a.data)

\* Array::reshape_scalar
reshape_scalar(a, count) ==
    Ok(<<count>> \o a.shape,
       IF count = 0 THEN <<>> ELSE Concat([i \in 1..count |-> a.data]))

\* rerank keeping the first r axes of a positive r, not the last
rerank_FromFront(a, irank) ==
    LET r == Abs(irank)
        shape == a.shape
    IN IF r > Len(shape)
       THEN IF irank >= 0
            THEN validate_shape(Ok(Repeat(1, r - Len(shape) + 1) \o shape, a.data))
            ELSE Err
       ELSE IF irank >= 0 /\ r = Len(shape)
       THEN validate_shape(Ok(<<1>> \o shape, a.data))
       ELSE validate_shape(Ok(<<Product(SubSeq(shape, 1, r))>>
                                \o SubSeq(shape, r + 1, Len(shape)), a.data))

\* Value::rerank
rerank(a, irank) ==
    LET r == Abs(irank)
        shape == a.shape
    IN IF irank >= 0
       THEN IF r >= Len(shape)
            THEN validate_shape(Ok(Repeat(1, r - Len(shape) + 1) \o shape, a.data))
            ELSE LET mid == Len(shape) - r
                 IN validate_shape(Ok(<<Product(SubSeq(shape, 1, mid))>>
                                        \o SubSeq(shape, mid + 1, Len(shape)), a.data))
       ELSE IF r > Len(shape) THEN Err
            ELSE validate_shape(Ok(<<Product(SubSeq(shape, 1, r))>>
                                     \o SubSeq(shape, r + 1, Len(shape)), a.data))

(***************************************************************************)
(* keep                                                                    *)
(***************************************************************************)
\* Array::scalar_keep
scalar_keep(a, count) ==
    IF rank(a) = 0
    THEN validate_shape(Ok(<<count>>, Repeat(a.data[1], count)))
    ELSE IF count = 0 THEN Ok(<<0>> \o Tail(a.shape), <<>>)
    ELSE IF count = 1 THEN OkArr(a)
    ELSE validate_shape(Ok(<<a.shape[1] * count>> \o Tail(a.shape),
                           Concat([i \in 1..count |-> a.data])))

\* the rows kept by list_keep: row i of the data, amount[i] times
RECURSIVE KeepRows(_, _, _)
\* KeepRows that copies a row once however large its count
KeepRows_Once(amount, rowdata, i) ==
    IF i > Len(amount) \/ i > Len(rowdata) THEN <<>>
    ELSE Concat(Repeat(rowdata[i], Min(amount[i], 1))) \o KeepRows(amount, rowdata, i + 1)

KeepRows(amount, rowdata, i) ==
    IF i > Len(amount) \/ i > Len(rowdata) THEN <<>>
    ELSE Concat(Repeat(rowdata[i], amount[i])) \o KeepRows(amount, rowdata, i + 1)

\* the rows kept by the 0/1 path of list_keep: row i when amount[i] is 1
RECURSIVE KeepMask(_, _, _)
KeepMask(amount, rowdata, i) ==
    IF i > Len(amount) \/ i > Len(rowdata) THEN <<>>
    ELSE (IF amount[i] = 1 THEN rowdata[i] ELSE <<>>) \o KeepMask(amount, rowdata, i + 1)

\* Array::list_keep
list_keep(a, counts, fl) ==
    LET short == Len(counts) < row_count(a)
        amount == IF short /\ fl.ok
                  THEN counts \o Repeat(fl.val, row_count(a) - Len(counts))
                  ELSE counts
    IN IF short /\ ~ fl.ok THEN Err
       ELSE IF short /\ fl.val < 0 THEN Err
       ELSE IF Len(counts) > row_count(a) THEN Err
       ELSE IF rank(a) = 0
            THEN IF Len(amount) # 1 THEN Err
                 ELSE validate_shape(Ok(<<amount[1]>>, Repeat(a.data[1], amount[1])))
            ELSE LET all_bools == \A i \in 1..Len(amount) : amount[i] \in {0, 1}
                     true_count == Cardinality({i \in 1..Len(amount) : amount[i] = 1})
                 IN IF all_bools
                    THEN validate_shape(
                           Ok(<<true_count>> \o Tail(a.shape),
                              IF row_len(a) > 0
                              THEN KeepMask(amount, chunks_exact(a.data, row_len(a)), 1)
                              ELSE <<>>))
                    ELSE validate_shape(
                           Ok(<<IF row_len(a) > 0
                                  THEN Sum(SubSeq(amount, 1,
                                         Min(Len(amount),
                                             Len(chunks_exact(a.data, row_len(a))))))
                                  ELSE Sum(amount)>> \o Tail(a.shape),
                              IF row_len(a) > 0
                              THEN KeepRows(amount, chunks_exact(a.data, row_len(a)), 1)
                              ELSE <<>>))

(***************************************************************************)
(* rotate                                                                  *)
(***************************************************************************)
\* isize::rem_euclid for a positive modulus
rem_euclid(x, m) == x % m

\* Results of the in-place helpers: the data, or a panic.
Data(d) == [panic |-> FALSE, data |-> d]
DataPanic == [panic |-> TRUE, data |-> <<>>]

\* apply a data transformer f to every piece; a panic in one piece is a panic
RECURSIVE rotate(_, _, _)
RECURSIVE fill_shift(_, _, _, _)
RECURSIVE MapChunks(_, _, _, _, _, _)
MapChunks(which, by, shape, pieces, fl, i) ==
    IF i > Len(pieces) THEN Data(<<>>)
    ELSE LET one == IF which = "rotate" THEN rotate(by, shape, pieces[i])
                    ELSE fill_shift(by, shape, pieces[i], fl)
             rest == MapChunks(which, by, shape, pieces, fl, i + 1)
         IN IF one.panic \/ rest.panic THEN DataPanic
            ELSE Data(one.data \o rest.data)

\* fn rotate(by, shape, data): the three reversals, then each row in turn
rotate(by, shape, data) ==
    IF by = <<>> \/ shape = <<>> THEN Data(data)
    ELSE IF shape[1] = 0 THEN Data(data)
    ELSE LET row_cnt == shape[1]
             rlen == Product(Tail(shape))
             mid == rem_euclid(row_cnt + by[1], row_cnt)
             left == Slice0(data, 0, mid * rlen)
             right == Slice0(data, mid * rlen, Len(data))
             turned == Reverse(Reverse(left) \o Reverse(right))
         IN IF Tail(by) = <<>> \/ Tail(shape) = <<>> THEN Data(turned)
            ELSE IF rlen = 0 THEN DataPanic
            ELSE MapChunks("rotate", Tail(by), Tail(shape), chunks(turned, rlen),
                           0, 1)

\* fn fill_shift(by, shape, data, fill): overwrite what wrapped around
fill_shift(by, shape, data, fl) ==
    IF by = <<>> \/ shape = <<>> THEN Data(data)
    ELSE IF shape[1] = 0 THEN Data(data)
    ELSE LET offset == by[1]
             rlen == Product(Tail(shape))
             abs_offset == Abs(offset) * rlen
             data_len == Len(data)
             from == IF offset > 0 THEN Max(data_len - abs_offset, 0) ELSE 0
             to == IF offset > 0 THEN data_len ELSE Min(abs_offset, data_len)
             shifted == IF offset # 0
                        THEN [i \in 1..data_len |->
                                 IF from < i /\ i <= to THEN fl ELSE data[i]]
                        ELSE data
         IN IF Tail(by) = <<>> \/ Tail(shape) = <<>> THEN Data(shifted)
            ELSE IF rlen = 0 THEN DataPanic
            ELSE MapChunks("fill_shift", Tail(by), Tail(shape), chunks(shifted, rlen),
                           fl, 1)

\* Array::rotate
Array_rotate(a, by, fl) ==
    IF Len(by) > rank(a) THEN Err
    ELSE LET r == rotate(by, a.shape, a.data)
         IN IF r.panic THEN Panic
            ELSE IF fl.ok
                 THEN LET f == fill_shift(by, a.shape, r.data, fl.val)
                      IN IF f.panic THEN Panic ELSE Ok(a.shape, f.data)
                 ELSE Ok(a.shape, r.data)

(***************************************************************************)
(* windows                                                                 *)
(***************************************************************************)
\* all index tuples below the given extents, in row-major order
RECURSIVE Tuples(_)
Tuples(extents) ==
    IF extents = <<>> THEN << <<>> >>
    ELSE LET rest == Tuples(Tail(extents))
         IN Concat([i \in 1..Head(extents) |->
                       [j \in 1..Len(rest) |-> <<i - 1>> \o rest[j]]])

\* the row-major flat index of a multi-index
RECURSIVE FlatIndex(_, _)
FlatIndex(index, shape) ==
    IF index = <<>> THEN 0
    ELSE Head(index) * Product(Tail(shape)) + FlatIndex(Tail(index), Tail(shape))

\* the resolved size of each windowed axis
WindowSizes(a, isize_spec) ==
    [i \in 1..Len(isize_spec) |->
        IF isize_spec[i] >= 0 THEN isize_spec[i]
        ELSE Max(a.shape[i] + 1 + isize_spec[i], 0)]

\* Array::windows
windows(a, isize_spec) ==
    IF \E i \in 1..Len(isize_spec) : isize_spec[i] = 0 THEN Err
    ELSE IF Len(isize_spec) > Len(a.shape) THEN Err
    ELSE IF \E i \in 1..Len(isize_spec) : Abs(isize_spec[i]) > a.shape[i] THEN Err
    ELSE LET size_spec == WindowSizes(a, isize_spec)
             k == Len(size_spec)
             new_shape == [i \in 1..k |-> a.shape[i] + 1 - size_spec[i]]
                          \o size_spec \o SubSeq(a.shape, k + 1, Len(a.shape))
             true_size == size_spec \o SubSeq(a.shape, k + 1, Len(a.shape))
             corners == Tuples([i \in 1..Len(a.shape) |->
                                   a.shape[i] - true_size[i] + 1])
             items == Tuples(true_size)
         IN IF \E i \in 1..k : size_spec[i] > a.shape[i]
            THEN Array_new(new_shape, <<>>)
            ELSE IF a.data = <<>> THEN Panic
            ELSE Array_new(new_shape,
                   Concat([c \in 1..Len(corners) |->
                      [j \in 1..Len(items) |->
                         a.data[FlatIndex([d \in 1..Len(a.shape) |->
                                              corners[c][d] + items[j][d]],
                                          a.shape) + 1]]]))

(***************************************************************************)
(* pick and unpick                                                         *)
(***************************************************************************)
\* usize arithmetic wraps at this modulus; every size in the model is far
\* below it, so a wrapped result is told from a small one as on 64 bits
UsizeModulus == 2 ^ 16
as_usize(x) == x % UsizeModulus

\* the two builds: with overflow checks (arithmetic overflow panics) or
\* without (it wraps)
Builds == {"checked", "wrapping"}

RECURSIVE PickStep(_, _, _, _, _)
\* pick_single counting a negative index from the first row, not the last
PickStep_Mirrored(a, index, d, picked, fl) ==
    IF d > Len(index)
    THEN Array_new(SubSeq(a.shape, Len(index) + 1, Len(a.shape)), picked)
    ELSE LET rl == Product(SubSeq(a.shape, d + 1, Len(a.shape)))
             s == a.shape[d]
             i == index[d]
             j == IF i >= 0 THEN i ELSE Abs(i) - 1
         IN IF i >= s \/ i < -s
            THEN IF fl.ok THEN PickStep(a, index, d + 1, Repeat(fl.val, rl), fl)
                 ELSE Err
            ELSE IF (j + 1) * rl > Len(picked) THEN Panic
            ELSE PickStep(a, index, d + 1,
                          Slice0(picked, j * rl, (j + 1) * rl), fl)

\* the steps of pick_single from dimension d on
PickStep(a, index, d, picked, fl) ==
    IF d > Len(index)
    THEN Array_new(SubSeq(a.shape, Len(index) + 1, Len(a.shape)), picked)
    ELSE LET rl == Product(SubSeq(a.shape, d + 1, Len(a.shape)))
             s == a.shape[d]
             i == index[d]
             j == IF i >= 0 THEN i ELSE s + i
         IN IF i >= s \/ i < -s
            THEN IF fl.ok THEN PickStep(a, index, d + 1, Repeat(fl.val, rl), fl)
                 ELSE Err
            ELSE IF (j + 1) * rl > Len(picked) THEN Panic
            ELSE PickStep(a, index, d + 1,
                          Slice0(picked, j * rl, (j + 1) * rl), fl)

\* Array::pick_single
pick_single(a, index, fl) ==
    IF Len(index) > rank(a) THEN Err ELSE PickStep(a, index, 1, a.data, fl)

RECURSIVE pick(_, _, _, _)
\* the loop of pick_multi over the index rows: the data picked so far, or
\* the first failure
RECURSIVE PickRows(_, _, _, _, _)
PickRows(a, row_shape, pieces, fl, i) ==
    IF i > Len(pieces) THEN Ok(<<>>, <<>>)
    ELSE LET row == pick(a, row_shape, pieces[i], fl)
         IN IF row.kind # "ok" THEN row
            ELSE LET rest == PickRows(a, row_shape, pieces, fl, i + 1)
                 IN IF rest.kind # "ok" THEN rest
                    ELSE Ok(<<>>, row.data \o rest.data)

\* Array::pick_multi
pick_multi(a, index_shape, index_data, fl) ==
    LET index_row_len == Product(Tail(index_shape))
        n == Len(index_shape)
        picked == IF index_row_len = 0
                  THEN LET row == pick(a, Tail(index_shape), index_data, fl)
                       IN IF row.kind # "ok" THEN row
                          ELSE Ok(<<>>, Concat([k \in 1..index_shape[1] |-> row.data]))
                  ELSE PickRows(a, Tail(index_shape),
                                chunks(index_data, index_row_len), fl, 1)
    IN IF picked.kind # "ok" THEN picked
       ELSE IF index_shape[n] > Len(a.shape) THEN Panic
       ELSE Array_new(SubSeq(index_shape, 1, n - 1)
                        \o SubSeq(a.shape, index_shape[n] + 1, Len(a.shape)),
                      picked.data)

\* Array::pick
pick(a, index_shape, index_data, fl) ==
    IF Len(index_shape) <= 1 THEN pick_single(a, index_data, fl)
    ELSE pick_multi(a, index_shape, index_data, fl)

RECURSIVE UnpickStart(_, _, _, _, _)
\* the offset of unpick_single without the length of the rows below an axis
UnpickStart_NoStride(index, shape, i, start, build) ==
    IF i > Len(index) \/ i > Len(shape) THEN start
    ELSE LET ind == IF index[i] >= 0 THEN index[i]
                    ELSE as_usize(shape[i] + index[i])
             next == start + ind
         IN IF build = "checked" /\ next >= UsizeModulus
            THEN -1
            ELSE UnpickStart(index, shape, i + 1, as_usize(next), build)

\* the offset computed by unpick_single: -1 when an overflow check fires
UnpickStart(index, shape, i, start, build) ==
    IF i > Len(index) \/ i > Len(shape) THEN start
    ELSE LET ind == IF index[i] >= 0 THEN index[i]
                    ELSE as_usize(shape[i] + index[i])
             term == ind * Product(SubSeq(shape, i + 1, Len(shape)))
             next == start + as_usize(term)
         IN IF build = "checked" /\ (term >= UsizeModulus \/ next >= UsizeModulus)
            THEN -1
            ELSE UnpickStart(index, shape, i + 1, as_usize(next), build)

\* Array::unpick_single: self is the edited cell
unpick_single(from, index, into, build) ==
    IF Len(index) > Len(into.shape) THEN Panic
    ELSE IF from.shape # SubSeq(into.shape, Len(index) + 1, Len(into.shape)) THEN Err
    ELSE LET start == UnpickStart(index, into.shape, 1, 0, build)
         IN IF start < 0 THEN Panic
            ELSE Ok(into.shape,
                    [k \in 1..Len(into.data) |->
                        IF start < k /\ k <= start + Len(from.data)
                        THEN from.data[k - start] ELSE into.data[k]])

RECURSIVE unpick(_, _, _, _, _)
\* the loop of unpick_multi: each row of the edited array is written back
\* at its index row; the first failure ends it
RECURSIVE UnpickRows(_, _, _, _, _, _)
UnpickRows(from_rows, row_shape, pieces, into, build, i) ==
    IF i > Len(from_rows) \/ i > Len(pieces) THEN OkArr(into)
    ELSE LET r == unpick(from_rows[i], row_shape, pieces[i], into, build)
         IN IF r.kind # "ok" THEN r
            ELSE UnpickRows(from_rows, row_shape, pieces, ArrOf(r), build, i + 1)

\* Array::unpick_multi
unpick_multi(from, index_shape, index_data, into, build) ==
    LET n == Len(index_shape)
        index_row_len == Product(Tail(index_shape))
    IN IF index_shape[n] > Len(into.shape) THEN Panic
       ELSE IF from.shape # SubSeq(index_shape, 1, n - 1)
                              \o SubSeq(into.shape, index_shape[n] + 1, Len(into.shape))
       THEN Err
       ELSE UnpickRows(rows(from), Tail(index_shape),
                       IF index_row_len = 0
                       THEN [k \in 1..row_count(from) |-> index_data]
                       ELSE chunks(index_data, index_row_len),
                       into, build, 1)

\* Array::unpick
unpick(from, index_shape, index_data, into, build) ==
    IF Len(index_shape) <= 1 THEN unpick_single(from, index_data, into, build)
    ELSE unpick_multi(from, index_shape, index_data, into, build)

\* lexicographic order of integer sequences, as slices compare
RECURSIVE LexLeq(_, _)
LexLeq(x, y) ==
    IF x = <<>> THEN TRUE
    ELSE IF y = <<>> THEN FALSE
    ELSE IF Head(x) # Head(y) THEN Head(x) < Head(y)
    ELSE LexLeq(Tail(x), Tail(y))

\* sort_unstable on a sequence of integer sequences
RECURSIVE Insert(_, _)
Insert(x, sorted) ==
    IF sorted = <<>> THEN <<x>>
    ELSE IF LexLeq(x, Head(sorted)) THEN <<x>> \o sorted
    ELSE <<Head(sorted)>> \o Insert(x, Tail(sorted))

RECURSIVE sort_unstable(_)
sort_unstable(s) ==
    IF s = <<>> THEN <<>> ELSE Insert(Head(s), sort_unstable(Tail(s)))

\* Value::unpick: the duplicate check, then the array's unpick
Value_unpick(from, index_shape, index_data, into, build) ==
    LET n == Len(index_shape)
        last_axis_len == index_shape[n]
        sorted_indices == sort_unstable(chunks(index_data, last_axis_len))
    IN IF n > 1 /\ last_axis_len = 0
          /\ \E k \in 1..(n - 1) : index_shape[k] > 1
       THEN Err
       ELSE IF n > 1 /\ last_axis_len # 0
               /\ \E k \in 1..(Len(sorted_indices) - 1) :
                      sorted_indices[k] = sorted_indices[k + 1]
       THEN Err
       ELSE unpick(from, index_shape, index_data, into, build)

(***************************************************************************)
(* take and drop                                                           *)
(***************************************************************************)
\* usize::saturating_sub
saturating_sub(x, y) == Max(x - y, 0)

\* the outcome of mapping take or drop over rows: the new rows, or the
\* first failure
RowsOk(rs) == [kind |-> "ok", rows |-> rs]
RowsFail(r) == [kind |-> r.kind, rows |-> <<>>]

\* take_one whose negative amount takes the first rows
take_one_FromFront(a, taking, fl) ==
    LET rl == row_len(a)
        rc == row_count(a)
        abs_taking == Abs(taking)
        filled == abs_taking > rc
        data == IF taking >= 0
                THEN IF filled
                     THEN a.data \o Repeat(fl.val, (abs_taking - rc) * rl)
                     ELSE Slice0(a.data, 0, Min(abs_taking * rl, Len(a.data)))
                ELSE IF filled
                     THEN Repeat(fl.val, (abs_taking - rc) * rl) \o a.data
                     ELSE Slice0(a.data, 0, Min(abs_taking * rl, Len(a.data)))
        shape == IF a.shape # <<>>
                 THEN <<IF filled THEN abs_taking ELSE Min(a.shape[1], abs_taking)>>
                        \o Tail(a.shape)
                 ELSE IF filled THEN <<abs_taking>> ELSE <<>>
    IN IF filled /\ ~ fl.ok THEN Err ELSE validate_shape(Ok(shape, data))

\* take_one that puts the fill rows last whatever the sign
take_one_PadBack(a, taking, fl) ==
    LET rl == row_len(a)
        rc == row_count(a)
        abs_taking == Abs(taking)
        filled == abs_taking > rc
        data == IF taking >= 0
                THEN IF filled
                     THEN a.data \o Repeat(fl.val, (abs_taking - rc) * rl)
                     ELSE Slice0(a.data, 0, Min(abs_taking * rl, Len(a.data)))
                ELSE IF filled
                     THEN a.data \o Repeat(fl.val, (abs_taking - rc) * rl)
                     ELSE Slice0(a.data, Min((rc - abs_taking) * rl, Len(a.data)),
                                 Len(a.data))
        shape == IF a.shape # <<>>
                 THEN <<IF filled THEN abs_taking ELSE Min(a.shape[1], abs_taking)>>
                        \o Tail(a.shape)
                 ELSE IF filled THEN <<abs_taking>> ELSE <<>>
    IN IF filled /\ ~ fl.ok THEN Err ELSE validate_shape(Ok(shape, data))

\* Array::take with a one-element index
take_one(a, taking, fl) ==
    LET rl == row_len(a)
        rc == row_count(a)
        abs_taking == Abs(taking)
        filled == abs_taking > rc
        data == IF taking >= 0
                THEN IF filled
                     THEN a.data \o Repeat(fl.val, (abs_taking - rc) * rl)
                     ELSE Slice0(a.data, 0, Min(abs_taking * rl, Len(a.data)))
                ELSE IF filled
                     THEN Repeat(fl.val, (abs_taking - rc) * rl) \o a.data
                     ELSE Slice0(a.data, Min((rc - abs_taking) * rl, Len(a.data)),
                                 Len(a.data))
        shape == IF a.shape # <<>>
                 THEN <<IF filled THEN abs_taking ELSE Min(a.shape[1], abs_taking)>>
                        \o Tail(a.shape)
                 ELSE IF filled THEN <<abs_taking>> ELSE <<>>
    IN IF filled /\ ~ fl.ok THEN Err ELSE validate_shape(Ok(shape, data))

RECURSIVE take(_, _, _)
RECURSIVE drop(_, _)
\* the loop "for row in rows: new_rows.push(row.take/drop(sub_index)?)"
RECURSIVE MapRows(_, _, _, _, _)
MapRows(which, rs, sub_index, fl, i) ==
    IF i > Len(rs) THEN RowsOk(<<>>)
    ELSE LET one == IF which = "take" THEN take(rs[i], sub_index, fl)
                    ELSE drop(rs[i], sub_index)
         IN IF one.kind # "ok" THEN RowsFail(one)
            ELSE LET rest == MapRows(which, rs, sub_index, fl, i + 1)
                 IN IF rest.kind # "ok" THEN rest
                    ELSE RowsOk(<<ArrOf(one)>> \o rest.rows)

\* Array::take
take(a, index, fl) ==
    IF index = <<>> THEN OkArr(a)
    ELSE IF Len(index) = 1 THEN take_one(a, index[1], fl)
    ELSE IF Len(index) > rank(a) THEN Err
    ELSE LET taking == index[1]
             sub_index == Tail(index)
             abs_taking == Abs(taking)
             rc == row_count(a)
             chosen == IF taking >= 0
                       THEN SubSeq(rows(a), 1, Min(abs_taking, rc))
                       ELSE SubSeq(rows(a), saturating_sub(rc, abs_taking) + 1, rc)
             new_rows == MapRows("take", chosen, sub_index, fl, 1)
             stacked == from_row_arrays_infallible(new_rows.rows)
             missing == (abs_taking - row_count(stacked)) * row_len(stacked)
         IN IF \A k \in 1..Min(Len(sub_index), Len(a.shape) - 1) :
                  Abs(sub_index[k]) = a.shape[k + 1]
            THEN take_one(a, taking, fl)
            ELSE IF new_rows.kind # "ok" THEN [kind |-> new_rows.kind,
                                               shape |-> <<>>, data |-> <<>>]
            ELSE IF abs_taking > row_count(stacked) /\ ~ fl.ok THEN Err
            ELSE validate_shape(Ok(<<abs_taking>> \o Tail(stacked.shape),
                   IF abs_taking > row_count(stacked)
                   THEN IF taking >= 0
                        THEN stacked.data \o Repeat(fl.val, missing)
                        ELSE Repeat(fl.val, missing) \o stacked.data
                   ELSE stacked.data))

\* Array::drop
drop(a, index) ==
    IF index = <<>> THEN OkArr(a)
    ELSE IF Len(index) = 1
    THEN LET dropping == index[1]
             rl == row_len(a)
             rc == row_count(a)
             abs_dropping == Abs(dropping)
             n == Len(a.data)
             data == IF dropping >= 0
                     THEN Slice0(a.data, Min(abs_dropping * rl, n), n)
                     ELSE Slice0(a.data, 0,
                                 Min(saturating_sub(rc, abs_dropping) * rl, n))
             shape == IF a.shape = <<>> THEN <<1>> ELSE a.shape
         IN validate_shape(Ok(<<saturating_sub(shape[1], abs_dropping)>>
                                \o Tail(shape), data))
    ELSE IF Len(index) > rank(a) THEN Err
    ELSE LET dropping == index[1]
             abs_dropping == Abs(dropping)
             rc == row_count(a)
             chosen == IF dropping >= 0
                       THEN SubSeq(rows(a), abs_dropping + 1, rc)
                       ELSE SubSeq(rows(a), 1, saturating_sub(rc, abs_dropping))
             new_rows == MapRows("drop", chosen, Tail(index), [ok |-> FALSE, val |-> 0], 1)
         IN IF new_rows.kind # "ok" THEN [kind |-> new_rows.kind,
                                           shape |-> <<>>, data |-> <<>>]
            ELSE from_row_arrays(new_rows.rows)

\* Value::take: a scalar cannot be taken from
Value_take(a, index, fl) == IF rank(a) = 0 THEN Err ELSE take(a, index, fl)

\* Value::drop: a scalar cannot be dropped from
Value_drop(a, index) == IF rank(a) = 0 THEN Err ELSE drop(a, index)

(***************************************************************************)
(* select and unselect                                                     *)
(***************************************************************************)
\* the loop of Array::select from index k on: the rows selected so far, or
\* an error at the first out-of-range index without a fill
RECURSIVE SelectRows(_, _, _, _)
SelectRows(a, indices, fl, k) ==
    IF k > Len(indices) THEN Ok(<<>>, <<>>)
    ELSE LET rl == row_len(a)
             rc == row_count(a)
             i == IF indices[k] >= 0 THEN indices[k] ELSE as_usize(rc + indices[k])
             rest == SelectRows(a, indices, fl, k + 1)
         IN IF i >= rc
            THEN IF ~ fl.ok THEN Err
                 ELSE IF rest.kind # "ok" THEN rest
                 ELSE Ok(<<>>, Repeat(fl.val, rl) \o rest.data)
            ELSE IF (i + 1) * rl > Len(a.data) THEN Panic
            ELSE IF rest.kind # "ok" THEN rest
            ELSE Ok(<<>>, Slice0(a.data, i * rl, (i + 1) * rl) \o rest.data)

\* Array::select
select(a, indices, fl) ==
    LET selected == SelectRows(a, indices, fl, 1)
    IN IF selected.kind # "ok" THEN selected
       ELSE Array_new(IF a.shape # <<>> THEN <<Len(indices)>> \o Tail(a.shape)
                      ELSE <<Len(indices)>>,
                      selected.data)

RECURSIVE select_impl(_, _, _, _)
\* the loop of select_impl over the rows of a multi-dimensional index
RECURSIVE SelectImplRows(_, _, _, _, _)
SelectImplRows(a, row_shape, pieces, fl, k) ==
    IF k > Len(pieces) THEN RowsOk(<<>>)
    ELSE LET one == select_impl(a, row_shape, pieces[k], fl)
         IN IF one.kind # "ok" THEN RowsFail(one)
            ELSE LET rest == SelectImplRows(a, row_shape, pieces, fl, k + 1)
                 IN IF rest.kind # "ok" THEN rest
                    ELSE RowsOk(<<ArrOf(one)>> \o rest.rows)

\* Array::select_impl
select_impl(a, indices_shape, indices, fl) ==
    IF Len(indices_shape) > 1
    THEN LET rlen == Product(Tail(indices_shape))
             selected == SelectImplRows(a, Tail(indices_shape),
                                        chunks_exact(indices, rlen), fl, 1)
         IN IF rlen = 0
            THEN Array_new(indices_shape \o SubSeq(a.shape, 2, Len(a.shape)), <<>>)
            ELSE IF selected.kind # "ok"
            THEN [kind |-> selected.kind, shape |-> <<>>, data |-> <<>>]
            ELSE from_row_arrays(selected.rows)
    ELSE LET r == select(a, indices, fl)
         IN IF r.kind = "ok" /\ indices_shape = <<>>
            THEN Ok(Tail(r.shape), r.data)
            ELSE r

\* the loop of unselect_inner from index k on
RECURSIVE unselect_inner(_, _, _, _)
unselect_inner(row_slices_, indices, into, k) ==
    IF k > Len(indices) \/ k > Len(row_slices_) THEN OkArr(into)
    ELSE LET into_row_len == row_len(into)
             into_row_count == row_count(into)
             i == IF indices[k] >= 0 THEN indices[k]
                  ELSE as_usize(into_row_count + indices[k])
             row == row_slices_[k]
             start == i * into_row_len
             n == Min(into_row_len, Len(row))
         IN IF i >= into_row_count THEN Err
            ELSE IF start + n > Len(into.data) THEN Panic
            ELSE unselect_inner(row_slices_, indices,
                    Arr(into.shape,
                        [j \in 1..Len(into.data) |->
                            IF start < j /\ j <= start + n
                            THEN row[j - start] ELSE into.data[j]]),
                    k + 1)

\* Array::unselect: self is the edited selection
unselect(from, indices_shape, indices, into) ==
    IF ~ (row_count(from) = Len(indices) \/ indices_shape = <<>>) THEN Err
    ELSE IF indices_shape = <<>>
    THEN unselect_inner(<<from.data>>, indices, into, 1)
    ELSE unselect_inner(row_slices(from), indices, into, 1)

\* Array::unselect_impl
unselect_impl(from, indices_shape, indices, into) ==
    IF Len(indices_shape) > 1 THEN Err
    ELSE unselect(from, indices_shape, indices, into)

\* one operand of the comparison in Value::unselect: a negative index is
\* taken from the row count in unsigned arithmetic; -1 when the overflow
\* check fires
ResolveUnchecked(x, rc, build) ==
    IF x >= 0 THEN x
    ELSE IF rc - Abs(x) < 0 /\ build = "checked" THEN -1
    ELSE as_usize(rc - Abs(x))

\* the scan of adjacent pairs of the sorted indices in Value::unselect
RECURSIVE DupScan(_, _, _, _)
DupScan(sorted, k, rc, build) ==
    IF k >= Len(sorted) THEN "none"
    ELSE LET x == ResolveUnchecked(sorted[k][1], rc, build)
             y == ResolveUnchecked(sorted[k + 1][1], rc, build)
         IN IF x < 0 \/ y < 0 THEN "panic"
            ELSE IF x = y THEN "dup"
            ELSE DupScan(sorted, k + 1, rc, build)

\* Value::unselect: the duplicate check, then the array's unselect_impl
Value_unselect(from, indices_shape, indices, into, build) ==
    LET sorted_indices == sort_unstable([k \in 1..Len(indices) |-> <<indices[k]>>])
        scan == DupScan(sorted_indices, 1, row_count(into), build)
    IN IF scan = "panic" THEN Panic
       ELSE IF scan = "dup" THEN Err
       ELSE unselect_impl(from, indices_shape, indices, into)

\* Value::select and Value::pick hand the index array to the array's method
Value_select(a, indices_shape, indices, fl) == select_impl(a, indices_shape, indices, fl)
Value_pick(a, index_shape, index_data, fl) == pick(a, index_shape, index_data, fl)

(***************************************************************************)
(* find, member, index_of, progressive_index_of                            *)
(***************************************************************************)
\* fill_to_shape for a target of the array's rank: a cell inside the old
\* shape keeps its element, every other cell takes the fill value
fill_to_shape(a, shape, fill_value) ==
    IF a.shape = shape THEN a
    ELSE LET cells == Tuples(shape)
         IN Arr(shape, [n \in 1..Len(cells) |->
                   IF \A i \in 1..Len(shape) : cells[n][i] < a.shape[i]
                   THEN a.data[FlatIndex(cells[n], a.shape) + 1]
                   ELSE fill_value])

\* some dimension of the searched-for array exceeds the dimension of the
\* searched array it is aligned with from the back
any_dim_greater(searched_for, searched) ==
    \E i \in 0..(Min(rank(searched_for), rank(searched)) - 1) :
        searched_for.shape[rank(searched_for) - i] > searched.shape[rank(searched) - i]

\* the shape of the searched-for array padded with leading 1s
PaddedShape(searched_for, searched) ==
    Repeat(1, Max(rank(searched) - rank(searched_for), 0)) \o searched_for.shape

\* the position after curr in row-major order below the limits (the last
\* axis moves first; an axis at its limit goes back to 0), or <<>> when
\* every axis is at its limit
NextPosition(curr, limits) ==
    LET open == {i \in 1..Len(curr) : curr[i] # limits[i]}
    IN IF open = {} THEN <<>>
       ELSE LET i == CHOOSE x \in open : \A y \in open : y <= x
            IN [j \in 1..Len(curr) |->
                   IF j < i THEN curr[j] ELSE IF j = i THEN curr[i] + 1 ELSE 0]

RECURSIVE FindItems(_, _, _, _, _)
\* the 'items loop of find for one corner: 1 when the window matches, 0
\* at the first mismatch, -1 when an index leaves the searched data
FindItems(searched_for, searched, searched_for_shape, corner, curr) ==
    LET n == Len(curr)
        searched_index ==
            FlatIndex([i \in 1..n |-> corner[i] + curr[i]], searched.shape)
        search_for_index == FlatIndex(curr, SubSeq(searched_for_shape, 1, n))
    IN IF search_for_index >= Len(searched_for.data) THEN 0
       ELSE IF searched_index >= Len(searched.data) THEN 0 - 1
       ELSE IF searched.data[searched_index + 1] # searched_for.data[search_for_index + 1]
       THEN 0
       ELSE IF n = 0 \/ NextPosition(curr, [i \in 1..n |-> searched_for_shape[i] - 1]) = <<>>
       THEN 1
       ELSE FindItems(searched_for, searched, searched_for_shape, corner,
                      NextPosition(curr, [i \in 1..n |-> searched_for_shape[i] - 1]))

FindDone(panicked, data) == [panic |-> panicked, data |-> data]

RECURSIVE FindWindows(_, _, _, _, _, _, _)
\* the 'windows loop of find: one entry of data per corner
FindWindows(searched_for, searched, searched_for_shape, corner, k, data, build) ==
    LET n == Len(corner)
        same == FindItems(searched_for, searched, searched_for_shape, corner,
                          Repeat(0, n))
        limits == [i \in 1..n |-> as_usize(searched.shape[i] - searched_for_shape[i])]
        open == {i \in 1..n : corner[i] # limits[i]}
        last == IF open = {} THEN 1 ELSE CHOOSE x \in open : \A y \in open : y <= x
        underflow == \E i \in last..n : searched_for_shape[i] > searched.shape[i]
    IN IF same < 0 \/ k >= Len(data) THEN FindDone(TRUE, data)
       ELSE IF build = "checked" /\ underflow THEN FindDone(TRUE, data)
       ELSE IF n = 0 \/ open = {} THEN FindDone(FALSE, [data EXCEPT ![k + 1] = same])
       ELSE FindWindows(searched_for, searched, searched_for_shape,
                        NextPosition(corner, limits), k + 1,
                        [data EXCEPT ![k + 1] = same], build)

\* Array::find past the fill step
FindSearch(searched_for, searched, build) ==
    LET n == rank(searched)
        searched_for_shape == PaddedShape(searched_for, searched)
        underflow == \E i \in 1..n : searched_for_shape[i] > searched.shape[i] + 1
        temp_output_shape ==
            [i \in 1..n |-> as_usize(searched.shape[i] + 1 - searched_for_shape[i])]
        size == as_usize(Product(temp_output_shape))
        zeros == Repeat(0, size)
        done == IF \A i \in 1..n : searched.shape[i] > 0
                THEN FindWindows(searched_for, searched, searched_for_shape,
                                 Repeat(0, n), 0, zeros, build)
                ELSE FindDone(FALSE, zeros)
    IN IF build = "checked" /\ underflow THEN Panic
       ELSE IF size >= UsizeModulus \div 2 THEN Panic
       ELSE IF done.panic THEN Panic
       ELSE IF Len(searched_for_shape) > n THEN Panic
       ELSE validate_shape(OkArr(fill_to_shape(Arr(temp_output_shape, done.data),
                                                searched.shape, 0)))

\* find that fails when the shapes do not fit and there is no fill
find_FailWithoutFill(searched_for, searched, fl, build) ==
    IF rank(searched_for) > rank(searched) \/ any_dim_greater(searched_for, searched)
    THEN Err
    ELSE FindSearch(searched_for, searched, build)

\* Array::find
find(searched_for, searched, fl, build) ==
    IF rank(searched_for) > rank(searched) \/ any_dim_greater(searched_for, searched)
    THEN IF ~fl.ok
         THEN Array_new(searched.shape, Repeat(0, element_count(searched)))
         ELSE IF rank(searched) = 0 THEN Panic
         ELSE FindSearch(searched_for,
                         fill_to_shape(searched,
                                       [searched.shape EXCEPT ![1] = row_count(searched_for)],
                                       fl.val),
                         build)
    ELSE FindSearch(searched_for, searched, build)

\* the leading axis alone: shape.iter().take(1)
LeadingAxis(a) == SubSeq(a.shape, 1, Min(1, rank(a)))

\* the first failure among the results, or the results stacked as rows
StackResults(rs) ==
    IF \E i \in 1..Len(rs) : rs[i].kind # "ok"
    THEN rs[CHOOSE i \in 1..Len(rs) :
                /\ rs[i].kind # "ok"
                /\ \A j \in 1..(i - 1) : rs[j].kind = "ok"]
    ELSE from_row_arrays([i \in 1..Len(rs) |-> ArrOf(rs[i])])

\* the first position (0-based) of those (1-based) that satisfy a test, or
\* none
Position(hits, none) ==
    IF hits = {} THEN none
    ELSE (CHOOSE i \in hits : \A j \in hits : i <= j) - 1

RECURSIVE member(_, _)
\* Array::member
member(elems, of) ==
    IF rank(elems) = rank(of)
    THEN LET members == {row_slices(of)[i] : i \in 1..row_count(of)}
         IN Array_new(LeadingAxis(elems),
                      [i \in 1..row_count(elems) |->
                          IF row_slices(elems)[i] \in members THEN 1 ELSE 0])
    ELSE IF rank(elems) > rank(of)
    THEN StackResults([i \in 1..row_count(elems) |-> member(rows(elems)[i], of)])
    ELSE IF rank(of) - rank(elems) = 1
    THEN IF rank(elems) = 0
         THEN IF elems.data = <<>> THEN Panic
              ELSE Ok(<<>>, <<IF \E i \in 1..Len(of.data) : of.data[i] = elems.data[1]
                              THEN 1 ELSE 0>>)
         ELSE Ok(<<>>, <<IF \E i \in 1..row_count(of) : rows(of)[i] = elems
                         THEN 1 ELSE 0>>)
    ELSE StackResults([i \in 1..row_count(of) |-> member(elems, rows(of)[i])])

RECURSIVE index_of(_, _)
\* Array::index_of
index_of(searched_for, searched_in) ==
    IF rank(searched_for) = rank(searched_in)
    THEN Array_new(LeadingAxis(searched_for),
             [e \in 1..row_count(searched_for) |->
                 Position({i \in 1..row_count(searched_in) :
                              row_slices(searched_in)[i] = row_slices(searched_for)[e]},
                          row_count(searched_in))])
    ELSE IF rank(searched_for) > rank(searched_in)
    THEN StackResults([i \in 1..row_count(searched_for) |->
                          index_of(rows(searched_for)[i], searched_in)])
    ELSE IF rank(searched_in) - rank(searched_for) = 1
    THEN IF rank(searched_for) = 0
         THEN IF searched_for.data = <<>> THEN Panic
              ELSE Ok(<<>>, <<Position({i \in 1..Len(searched_in.data) :
                                           searched_in.data[i] = searched_for.data[1]},
                                       row_count(searched_in))>>)
         ELSE Ok(<<>>, <<Position({i \in 1..row_count(searched_in) :
                                      row_slices(searched_in)[i] = searched_for.data},
                                  row_count(searched_in))>>)
    ELSE StackResults([i \in 1..row_count(searched_in) |->
                          index_of(searched_for, rows(searched_in)[i])])

RECURSIVE ProgressiveScan(_, _, _, _, _)
\* progressive scan that forgets which positions are used
ProgressiveScan_Reuse(queries, targets, q, used, none) ==
    IF q > Len(queries) THEN <<>>
    ELSE LET pos == Position({i \in 1..Len(targets) : targets[i] = queries[q]}, none)
         IN <<pos>> \o ProgressiveScan(queries, targets, q + 1, used, none)

\* the loop of progressive_index_of over the queries: each takes the first
\* equal position not yet used, or none
ProgressiveScan(queries, targets, q, used, none) ==
    IF q > Len(queries) THEN <<>>
    ELSE LET pos == Position({i \in 1..Len(targets) :
                                 targets[i] = queries[q] /\ (i - 1) \notin used}, none)
         IN <<pos>> \o ProgressiveScan(queries, targets, q + 1,
                           IF pos = none THEN used ELSE used \union {pos},
                           none)

RECURSIVE progressive_index_of(_, _)
\* Array::progressive_index_of
progressive_index_of(searched_for, searched_in) ==
    IF rank(searched_for) = rank(searched_in)
    THEN IF rank(searched_for) = 1
         THEN LET result_data == ProgressiveScan(searched_for.data, searched_in.data,
                                                 1, {}, row_count(searched_in))
              IN Ok(<<Len(result_data)>>, result_data)
         ELSE Array_new(LeadingAxis(searched_for),
                        ProgressiveScan(rows(searched_for), rows(searched_in), 1, {},
                                        row_count(searched_in)))
    ELSE IF rank(searched_for) > rank(searched_in)
    THEN StackResults([i \in 1..row_count(searched_for) |->
                          progressive_index_of(rows(searched_for)[i], searched_in)])
    ELSE IF rank(searched_in) - rank(searched_for) = 1
    THEN IF rank(searched_for) = 0
         THEN IF searched_for.data = <<>> THEN Panic
              ELSE Ok(<<>>, <<Position({i \in 1..Len(searched_in.data) :
                                           searched_in.data[i] = searched_for.data[1]},
                                       row_count(searched_in))>>)
         ELSE Ok(<<>>, <<Position({i \in 1..row_count(searched_in) :
                                      rows(searched_in)[i] = searched_for},
                                  row_count(searched_in))>>)
    ELSE StackResults([i \in 1..row_count(searched_in) |->
                          progressive_index_of(searched_for, rows(searched_in)[i])])

(***************************************************************************)
(* The array operations as a state machine: one operation is applied to    *)
(* the operands drawn by Init.                                             *)
(***************************************************************************)
NoFill == [ok |-> FALSE, val |-> 0]
Fills == {NoFill, [ok |-> TRUE, val |-> 0]}

\* the arrays of rank <= MaxRank with axes of 0..MaxDim and elements
\* base + 1, base + 2, ...
Shapes == SeqsUpTo(0..MaxDim, MaxRank)
ArraysFrom(base) ==
    {Arr(sh, [i \in 1..Product(sh) |-> base + i]) : sh \in Shapes}
Arrays == ArraysFrom(0)

\* the integer arrays used as index, dims, amount or size operand
IdxVals == (0 - (MaxDim + 1))..(MaxDim + 1)
IdxShapes == {sh \in SeqsUpTo(0..MaxIdxCount, MaxIdxRank) : Product(sh) <= MaxIdxCount}
IndexArrays ==
    UNION {{Arr(sh, d) : d \in SeqsOfLen(IdxVals, Product(sh))} : sh \in IdxShapes}

\* Value::as_ints, as_nats, as_int, as_nat: a list (or scalar) of integers or
\* naturals, one integer, one natural
Conv(ok, val) == [ok |-> ok, val |-> val]
as_ints(v) == Conv(Len(v.shape) <= 1, v.data)
as_nats(v) == Conv(Len(v.shape) <= 1 /\ \A i \in 1..Len(v.data) : v.data[i] >= 0, v.data)
as_int(v) == Conv(v.shape = <<>>, IF v.shape = <<>> THEN v.data[1] ELSE 0)
as_nat(v) == Conv(v.shape = <<>> /\ v.data[1] >= 0, IF v.shape = <<>> THEN v.data[1] ELSE 0)

\* Value::unreshape
unreshape(a, old_shape) ==
    IF as_nat(old_shape).ok THEN Err
    ELSE IF ~ as_nats(old_shape).ok THEN Err
    ELSE IF Product(as_nats(old_shape).val) = Product(a.shape)
    THEN Ok(as_nats(old_shape).val, a.data)
    ELSE Err

\* the shape Value::unrerank puts together from the original shape and the
\* current one
UnrerankShape(shape, irank, orig_shape) ==
    LET r == Abs(irank)
    IN IF irank >= 0
       THEN Slice0(orig_shape, 0, Min(saturating_sub(Len(orig_shape), r), Len(orig_shape)))
            \o Slice0(shape,
                      Min(Max(saturating_sub(r + 1, Len(orig_shape)), 1), Len(shape)),
                      Len(shape))
       ELSE Slice0(orig_shape, 0, Min(r, Len(orig_shape)))
            \o Slice0(shape, Min(1, Len(shape)), Len(shape))

\* Value::unrerank on an array of numbers
unrerank(a, rk, orig_shape) ==
    IF rank(a) = 0 THEN OkArr(a)
    ELSE IF ~ as_int(rk).ok THEN Err
    ELSE LET new_shape == UnrerankShape(a.shape, as_int(rk).val, orig_shape)
         IN IF Product(new_shape) # element_count(a) THEN OkArr(a)
            ELSE validate_shape(Ok(new_shape, a.data))

\* the loop of Array::unkeep over counts zipped with the rows of into: a
\* count 0 keeps the row of into, any other takes the next transformed row
RECURSIVE UnkeepRows(_, _, _, _, _)
UnkeepRows(counts, transformed, into_rows, i, j) ==
    IF i > Len(counts) \/ i > Len(into_rows) THEN RowsOk(<<>>)
    ELSE IF counts[i] = 0
    THEN LET rest == UnkeepRows(counts, transformed, into_rows, i + 1, j)
         IN IF rest.kind # "ok" THEN rest ELSE RowsOk(<<into_rows[i]>> \o rest.rows)
    ELSE IF j > Len(transformed) THEN RowsFail(Err)
    ELSE IF transformed[j].shape # into_rows[i].shape THEN RowsFail(Err)
    ELSE LET rest == UnkeepRows(counts, transformed, into_rows, i + 1, j + 1)
         IN IF rest.kind # "ok" THEN rest ELSE RowsOk(<<transformed[j]>> \o rest.rows)

\* Array::unkeep
unkeep(a, counts, into) ==
    IF \E i \in 1..Len(counts) : counts[i] > 1 THEN Err
    ELSE LET new_rows == UnkeepRows(counts, rows(a), rows(into), 1, 1)
         IN IF new_rows.kind # "ok" THEN Err ELSE from_row_arrays(new_rows.rows)

\* Value::unkeep
Value_unkeep(c, kept, into) ==
    IF ~ as_nats(c).ok THEN Err
    ELSE IF rank(c) = 0 THEN Err
    ELSE unkeep(kept, as_nats(c).val, into)

\* a Value: an array tagged with the variant that holds it
Variants == {"Num", "Byte", "Complex", "Char", "Box"}
Value(t, a) == [type |-> t, shape |-> a.shape, data |-> a.data]

\* the build with and without cfg(feature = "bytes"); without it there is
\* no Value::Byte
Features == {"bytes", "no_bytes"}

\* the error of bin_coerce_to_boxes: the two types do not go together
TypeMismatch == [kind |-> "type_mismatch", shape |-> <<>>, data |-> <<>>]

\* Array<T> into Value: the result of an array operation tagged with T
IntoValue(t, r) ==
    IF r.kind = "ok"
    THEN [kind |-> "ok", shape |-> r.shape, data |-> r.data, type |-> t]
    ELSE r

\* coerce_to_boxes: every element in a box of its own
coerce_to_boxes(v) ==
    IF v.type = "Box" THEN v
    ELSE Value("Box", Arr(v.shape, [i \in 1..Len(v.data) |-> <<v.type, v.data[i]>>]))

\* Array::convert between bytes and numbers: the same numbers in the other
\* variant
convert(v, t) == Value(t, v)

\* Value::bin_coerce_to_boxes: the two arrays of boxes handed to on_success,
\* or no pair when neither value is boxed
bin_coerce_to_boxes(a, b) ==
    IF a.type = "Box" /\ b.type = "Box" THEN <<a, b>>
    ELSE IF a.type = "Box" THEN <<a, coerce_to_boxes(b)>>
    ELSE IF b.type = "Box" THEN <<coerce_to_boxes(a), b>>
    ELSE <<>>

\* the match of Value::unkeep with an arm for two complex arrays
UnkeepMatch_WithComplex(counts, kept, into, feature) ==
    LET on_success(a, b) == IntoValue(a.type, unkeep(a, counts, b))
    IN IF kept.type = into.type THEN on_success(kept, into)
       ELSE IF feature = "bytes" /\ kept.type = "Num" /\ into.type = "Byte"
       THEN on_success(kept, convert(into, "Num"))
       ELSE IF feature = "bytes" /\ kept.type = "Byte" /\ into.type = "Num"
       THEN on_success(convert(kept, "Num"), into)
       ELSE IF bin_coerce_to_boxes(kept, into) = <<>> THEN TypeMismatch
       ELSE on_success(bin_coerce_to_boxes(kept, into)[1],
                       bin_coerce_to_boxes(kept, into)[2])

\* the match on (kept, into) of Value::unkeep
UnkeepMatch(counts, kept, into, feature) ==
    LET on_success(a, b) == IntoValue(a.type, unkeep(a, counts, b))
    IN IF kept.type = into.type
          /\ kept.type \in ({"Num", "Char", "Box"}
                              \union (IF feature = "bytes" THEN {"Byte"} ELSE {}))
       THEN on_success(kept, into)
       ELSE IF feature = "bytes" /\ kept.type = "Num" /\ into.type = "Byte"
       THEN on_success(kept, convert(into, "Num"))
       ELSE IF feature = "bytes" /\ kept.type = "Byte" /\ into.type = "Num"
       THEN on_success(convert(kept, "Num"), into)
       ELSE IF bin_coerce_to_boxes(kept, into) = <<>> THEN TypeMismatch
       ELSE on_success(bin_coerce_to_boxes(kept, into)[1],
                       bin_coerce_to_boxes(kept, into)[2])

\* Value::unkeep on values of any variant
Value_unkeep_variants(c, kept, into, feature) ==
    IF ~ as_nats(c).ok THEN Err
    ELSE IF rank(c) = 0 THEN Err
    ELSE UnkeepMatch(as_nats(c).val, kept, into, feature)

ArrIdle ==
    /\ op = "init" /\ arr = [shape |-> <<>>, data |-> <<0>>]
    /\ ix = [shape |-> <<>>, data |-> <<0>>]
    /\ sub = [shape |-> <<>>, data |-> <<0>>]
    /\ fill = NoFill
    /\ built = "checked"
    /\ shp = <<>>
    /\ res = NoResult

\* no CowSlice handle is being exercised
CowIdle ==
    /\ hs = [h \in Handles |-> NoHandle]
    /\ st = [i \in StoreIds |-> EmptyStore]
    /\ cowLast = NoCowOp

\* one operation applied to the operands: its name and result are recorded
Apply(name, r) ==
    /\ op = "init"
    /\ op' = name
    /\ res' = r
    /\ UNCHANGED <<arr, ix, sub, fill, built, shp, cowVars>>

\* Value::reshape
Reshape ==
    IF as_nat(ix).ok
    THEN Apply("reshape_scalar", reshape_scalar(arr, as_nat(ix).val))
    ELSE Apply("reshape", IF as_ints(ix).ok THEN reshape(arr, as_ints(ix).val, fill)
                          ELSE Err)

\* Value::rerank
Rerank ==
    Apply("rerank", IF as_int(ix).ok THEN rerank(arr, as_int(ix).val) ELSE Err)

\* Value::keep
Keep ==
    IF as_nats(ix).ok /\ rank(ix) = 0
    THEN Apply("scalar_keep", scalar_keep(arr, as_nats(ix).val[1]))
    ELSE Apply("list_keep", IF as_nats(ix).ok THEN list_keep(arr, as_nats(ix).val, fill)
                            ELSE Err)

\* Value::take
Take ==
    Apply("take", IF rank(arr) = 0 \/ ~ as_ints(ix).ok THEN Err
                  ELSE take(arr, as_ints(ix).val, fill))

\* Value::drop
Drop ==
    Apply("drop", IF rank(arr) = 0 \/ ~ as_ints(ix).ok THEN Err
                  ELSE drop(arr, as_ints(ix).val))

\* Value::rotate
Rotate ==
    Apply("rotate", IF as_ints(ix).ok THEN Array_rotate(arr, as_ints(ix).val, fill)
                    ELSE Err)

\* Value::windows
Windows ==
    Apply("windows", IF as_ints(ix).ok THEN windows(arr, as_ints(ix).val) ELSE Err)

\* Value::pick
Pick == Apply("pick", Value_pick(arr, ix.shape, ix.data, fill))

\* Value::select
Select == Apply("select", Value_select(arr, ix.shape, ix.data, fill))

\* Value::unpick of what pick returned, unchanged, into the array picked from
UnpickPicked ==
    /\ op = "pick" /\ res.kind = "ok"
    /\ \E b \in Builds :
          /\ built' = b
          /\ res' = Value_unpick(ArrOf(res), ix.shape, ix.data, arr, b)
    /\ op' = "unpick_picked"
    /\ sub' = ArrOf(res)
    /\ UNCHANGED <<arr, ix, fill, shp, cowVars>>

\* Value::unselect of what select returned, unchanged, into the array
\* selected from
UnselectSelected ==
    /\ op = "select" /\ res.kind = "ok"
    /\ \E b \in Builds :
          /\ built' = b
          /\ res' = Value_unselect(ArrOf(res), ix.shape, ix.data, arr, b)
    /\ op' = "unselect_selected"
    /\ sub' = ArrOf(res)
    /\ UNCHANGED <<arr, ix, fill, shp, cowVars>>

\* Value::rotate by the negated offsets of what a rotate without a fill
\* value returned
RotateBack ==
    /\ op = "rotate" /\ res.kind = "ok" /\ ~ fill.ok
    /\ op' = "rotate_back"
    /\ sub' = ArrOf(res)
    /\ res' = Array_rotate(ArrOf(res), [d \in 1..Len(ix.data) |-> 0 - ix.data[d]], fill)
    /\ UNCHANGED <<arr, ix, fill, built, shp, cowVars>>

ArrInit ==
    /\ op = "init"
    /\ arr \in Arrays
    /\ ix \in IndexArrays
    /\ sub = [shape |-> <<>>, data |-> <<0>>]
    /\ fill \in Fills
    /\ built = "checked"
    /\ shp = <<>>
    /\ res = NoResult

ArrNext ==
    \/ Reshape
    \/ Rerank
    \/ Keep
    \/ Take
    \/ Drop
    \/ Rotate
    \/ Windows
    \/ Pick
    \/ Select
    \/ UnpickPicked
    \/ UnselectSelected
    \/ RotateBack

\* Value::unpick of an edited sub-array
Unpick ==
    /\ op = "init"
    /\ op' = "unpick"
    /\ \E b \in Builds :
          /\ built' = b
          /\ res' = Value_unpick(sub, ix.shape, ix.data, arr, b)
    /\ UNCHANGED <<arr, ix, sub, fill, shp, cowVars>>

\* Value::unselect of an edited sub-array
Unselect ==
    /\ op = "init"
    /\ op' = "unselect"
    /\ \E b \in Builds :
          /\ built' = b
          /\ res' = Value_unselect(sub, ix.shape, ix.data, arr, b)
    /\ UNCHANGED <<arr, ix, sub, fill, shp, cowVars>>

\* the edited sub-arrays: their elements are apart from those of the target
SubArrays == ArraysFrom(10)

UndoInit ==
    /\ op = "init"
    /\ arr \in Arrays
    /\ ix \in IndexArrays
    /\ sub \in SubArrays
    /\ fill = NoFill
    /\ built = "checked"
    /\ shp = <<>>
    /\ res = NoResult

UndoNext == Unpick \/ Unselect

\* derive_shape on the shape of an array and a list of dims
DeriveShape ==
    Apply("derive_shape", derive_shape(shp, ix.data, fill.ok))

\* shapes of arrays with more elements than a 24-bit significand counts
LargeShapes ==
    {<<2 ^ 24 + 1>>, <<2 ^ 24 + 3>>, <<2 ^ 12 + 1, 2 ^ 12 + 1>>, <<2 ^ 25>>}

\* the dims operands: lists of integers
DimsLists == {a \in IndexArrays : Len(a.shape) = 1}

ShapeInit ==
    /\ op = "init"
    /\ arr \in Arrays
    /\ ix \in DimsLists
    /\ sub = [shape |-> <<>>, data |-> <<0>>]
    /\ fill \in Fills
    /\ built = "checked"
    /\ shp \in {arr.shape} \cup LargeShapes
    /\ res = NoResult

ShapeNext == DeriveShape \/ Reshape

\* Value::unreshape
Unreshape == Apply("unreshape", unreshape(arr, ix))

\* Value::unrerank
Unrerank == Apply("unrerank", unrerank(arr, ix, shp))

\* the old shape of unreshape and the rank of unrerank: a number or a list
RankOrShape == {a \in IndexArrays : Len(a.shape) <= 1}

UnshapeInit ==
    /\ op = "init"
    /\ arr \in Arrays
    /\ ix \in RankOrShape
    /\ sub = [shape |-> <<>>, data |-> <<0>>]
    /\ fill = NoFill
    /\ built = "checked"
    /\ shp \in Shapes
    /\ res = NoResult

UnshapeNext == Unreshape \/ Unrerank

\* Value::unkeep of an edited array
Unkeep == Apply("unkeep", Value_unkeep(ix, sub, arr))

\* Value::unkeep of what a keep with a list of counts returned, unchanged,
\* into the array kept from
UnkeepKept ==
    /\ op = "list_keep" /\ res.kind = "ok"
    /\ op' = "unkeep_kept"
    /\ sub' = ArrOf(res)
    /\ res' = Value_unkeep(ix, ArrOf(res), arr)
    /\ UNCHANGED <<arr, ix, fill, built, shp, cowVars>>

\* the arrays that have rows
RowArrays(base) == {a \in ArraysFrom(base) : rank(a) >= 1}

UnkeepInit ==
    /\ op = "init"
    /\ arr \in RowArrays(0)
    /\ ix \in RankOrShape
    /\ sub \in RowArrays(10)
    /\ fill \in Fills
    /\ built = "checked"
    /\ shp = <<>>
    /\ res = NoResult

UnkeepNext == Keep \/ Unkeep \/ UnkeepKept

\* the CowSlice handles alone
InitCow == CowInit /\ ArrIdle
SpecCow == InitCow /\ [][CowNext]_vars

\* one array operation, and the undo of a pick or select
InitArr == CowIdle /\ ArrInit
SpecArr == InitArr /\ [][ArrNext]_vars

\* one undo operation on an edited sub-array of any shape
InitUndo == CowIdle /\ UndoInit
SpecUndo == InitUndo /\ [][UndoNext]_vars

\* the target shape of a reshape, of small and of large arrays
InitShape == CowIdle /\ ShapeInit
SpecShape == InitShape /\ [][ShapeNext]_vars

\* the undoing of a reshape or rerank
InitUnshape == CowIdle /\ UnshapeInit
SpecUnshape == InitUnshape /\ [][UnshapeNext]_vars

\* a keep, and the undoing of a keep
InitUnkeep == CowIdle /\ UnkeepInit
SpecUnkeep == InitUnkeep /\ [][UnkeepNext]_vars

\* Value::find, member, index_of and progressive_index_of on two arrays of
\* one element type: sub is searched for in arr
Find ==
    /\ op = "init"
    /\ op' = "find"
    /\ \E b \in Builds :
          /\ built' = b
          /\ res' = find(sub, arr, fill, b)
    /\ UNCHANGED <<arr, ix, sub, fill, shp, cowVars>>

Member == Apply("member", member(sub, arr))

IndexOf == Apply("index_of", index_of(sub, arr))

\* the rows of a scalar are not taken
ProgressiveIndexOf ==
    /\ rank(arr) >= 1
    /\ Apply("progressive_index_of", progressive_index_of(sub, arr))

\* the arrays searched and searched for: elements repeat
SearchVals == 1..2
SearchShapes == Shapes \union {<<MaxDim + 1>>, <<1, 1, 2>>, <<1, 2, 1>>}
SearchArrays ==
    UNION {{Arr(sh, d) : d \in SeqsOfLen(SearchVals, Product(sh))} : sh \in SearchShapes}
SearchPairs ==
    (SearchArrays \X SearchArrays)
        \union {<<Arr(<<2>>, <<2, 3>>), Arr(<<6>>, <<1, 2, 3, 4, 2, 3>>)>>}

SearchInit ==
    /\ op = "init"
    /\ \E p \in SearchPairs : sub = p[1] /\ arr = p[2]
    /\ ix = [shape |-> <<>>, data |-> <<0>>]
    /\ fill \in Fills
    /\ built = "checked"
    /\ shp = <<>>
    /\ res = NoResult

SearchNext == Find \/ Member \/ IndexOf \/ ProgressiveIndexOf

InitSearch == CowIdle /\ SearchInit
SpecSearch == InitSearch /\ [][SearchNext]_vars

\* Value::unkeep on a kept value and a target of any variant
UnkeepValue == Apply("unkeep_value", Value_unkeep_variants(ix, sub, arr, built))

\* the values of a variant: the elements of a boxed array are boxes
ValuesOf(t, base) ==
    {IF t = "Box" THEN coerce_to_boxes(Value("Num", a)) ELSE Value(t, a) :
        a \in RowArrays(base)}

\* the counts: a scalar, and the lists of 0 and 1 up to MaxDim long
CountArrays ==
    {Arr(<<>>, <<1>>)}
        \union {Arr(<<Len(d)>>, d) : d \in SeqsUpTo(0..1, MaxDim)}

VariantInit ==
    /\ op = "init"
    /\ built \in Features
    /\ \E t \in Variants \ (IF built = "bytes" THEN {} ELSE {"Byte"}) :
          arr \in ValuesOf(t, 0)
    /\ \E t \in Variants \ (IF built = "bytes" THEN {} ELSE {"Byte"}) :
          sub \in ValuesOf(t, 10)
    /\ ix \in CountArrays
    /\ fill = NoFill
    /\ shp = <<>>
    /\ res = NoResult

VariantNext == UnkeepValue

InitVariant == CowIdle /\ VariantInit
SpecVariant == InitVariant /\ [][VariantNext]_vars
(***************************************************************************)
(* Properties of the copy-on-write buffer.                                 *)
(***************************************************************************)
\* the elements of handle h's store outside its window
Hidden(H, S, h) ==
    <<Slice0(S[H[h].data].elems, 0, H[h].start),
      Slice0(S[H[h].data].elems, H[h].end, Len(S[H[h].data].elems))>>

\* C1: an operation performed through one handle never changes the element
\* sequence visible through any other handle.
C1_ValueSemantics ==
    [][\A h \in Handles :
          (Live(h) /\ hs'[h] # NoHandle /\ cowLast'.h # h)
              => View(hs', st', h) = View(hs, st, h)]_vars

\* C1 witness: a write through as_mut_slice copied the shared elements, and
\* the other handle still shows what the writer no longer shows.
C1_Witness ==
    /\ cowLast.op = "as_mut_slice" /\ ~ cowLast.inPlace
    /\ \E g \in Handles :
          /\ g # cowLast.h /\ Live(g)
          /\ Len(as_slice(g)) = Len(as_slice(cowLast.h))
          /\ as_slice(g) # as_slice(cowLast.h)

\* C3: modify(f) runs f on the backing store exactly when the store is
\* uniquely owned and the window is the whole store, and on a fresh copy of
\* the visible range otherwise; afterwards the window spans the handle's whole
\* store and shows f applied to the elements visible before.
C3_Modify ==
    [][cowLast'.op = "modify" =>
          LET h == cowLast'.h
          IN /\ cowLast'.inPlace <=> (is_unique(h) /\ IsFull(h))
             /\ hs'[h].start = 0
             /\ hs'[h].end = Len(st'[hs'[h].data].elems)
             /\ View(hs', st', h) = ApplyF(cowLast'.f, View(hs, st, h))]_vars

\* C3 witness: modify took the copying path on a shared, non-empty window
\* and appended to the copy.
C3_Witness ==
    /\ cowLast.op = "modify" /\ ~ cowLast.inPlace
    /\ cowLast.f.k = "extend" /\ Len(cowLast.f.xs) = 1
    /\ Len(as_slice(cowLast.h)) = 2
    /\ \E g \in Handles : g # cowLast.h /\ Live(g) /\ Len(as_slice(g)) = 2

ShapeOps == {"reshape", "reshape_scalar", "rerank", "scalar_keep", "list_keep",
             "take", "drop", "pick", "select", "windows"}

\* C2: after every successful reshape, reshape_scalar, rerank, scalar_keep,
\* list_keep, take, drop, pick, select and windows the data length of the
\* result is the product of its shape, whatever the array, the argument and
\* the fill; and no validate_shape assertion fails on the way.
C2_DataMatchesShape ==
    op \in ShapeOps =>
        /\ res.kind # "assert"
        /\ res.kind = "ok" => Len(res.data) = Product(res.shape)

\* a take along two axes that had to fill: the result is larger than the array
C2_Witness ==
    /\ op = "take" /\ res.kind = "ok" /\ fill.ok
    /\ Len(ix.data) = 2 /\ Len(res.data) > Len(arr.data)
    /\ Len(arr.data) > 0
    /\ Len(res.data) = Product(res.shape)

\* the target shape of an Array::reshape whose dims are all given
AllGiven(dims) == \A i \in 1..Len(dims) : dims[i] >= 0

\* C10: Array::reshape to a target of t elements from n elements: the first
\* t elements when n >= t; the data followed by t - n fill values when n < t
\* with a fill; without a fill, element j is the original element j mod n
\* when n > 0, and the operation fails when n = 0.
C10_ReshapeData ==
    (op = "reshape" /\ as_ints(ix).ok /\ AllGiven(ix.data)) =>
        LET t == Product(ix.data)
            n == Len(arr.data)
        IN IF n >= t
           THEN res = Ok(ix.data, Slice0(arr.data, 0, t))
           ELSE IF fill.ok
           THEN res = Ok(ix.data, arr.data \o Repeat(fill.val, t - n))
           ELSE IF n > 0
           THEN res = Ok(ix.data, [j \in 1..t |-> arr.data[((j - 1) % n) + 1]])
           ELSE res.kind = "err"

\* a reshape without fill to more than twice the elements of a non-scalar
\* array: the data comes round a second time
C10_Witness ==
    /\ op = "reshape" /\ res.kind = "ok" /\ ~ fill.ok
    /\ Len(arr.shape) > 0 /\ Len(arr.data) >= 2
    /\ Len(res.data) > 2 * Len(arr.data)
    /\ res.data[2 * Len(arr.data) + 1] = arr.data[1]

\* the position an index addresses on an axis of the given length
Resolved(i, len) == IF i >= 0 THEN i ELSE len + i
InRange(i, len) == 0 - len <= i /\ i < len

\* what pick of one index (a coordinate of the leading axes) is to return
PickIndexOk == Len(ix.shape) <= 1 /\ Len(ix.data) <= Len(arr.shape)
PickAllInRange == \A d \in 1..Len(ix.data) : InRange(ix.data[d], arr.shape[d])
PickCellShape == SubSeq(arr.shape, Len(ix.data) + 1, Len(arr.shape))
PickCellStart ==
    FlatIndex([d \in 1..Len(ix.data) |-> Resolved(ix.data[d], arr.shape[d])], arr.shape)

\* what select is to return: for each index the row it addresses, or a row
\* of the fill value
SelectAllInRange == \A k \in 1..Len(ix.data) : InRange(ix.data[k], row_count(arr))
SelectShape == ix.shape \o SubSeq(arr.shape, 2, Len(arr.shape))
SelectRow(i) ==
    IF InRange(i, row_count(arr))
    THEN Slice0(arr.data, Resolved(i, row_count(arr)) * row_len(arr),
                (Resolved(i, row_count(arr)) + 1) * row_len(arr))
    ELSE Repeat(fill.val, row_len(arr))

\* C9: in pick with a rank-0 or rank-1 index and in select, an index i with
\* -len <= i < 0 addresses position len + i; an index outside [-len, len)
\* makes the operation fail without a fill value, and with one the result has
\* the usual shape and the addressed cell or row is all fill values.
C9_IndexResolution ==
    /\ (op = "pick" /\ PickIndexOk) =>
          IF PickAllInRange
          THEN res = Ok(PickCellShape,
                        Slice0(arr.data, PickCellStart,
                               PickCellStart + Product(PickCellShape)))
          ELSE IF fill.ok
          THEN res = Ok(PickCellShape, Repeat(fill.val, Product(PickCellShape)))
          ELSE res.kind = "err"
    /\ (op = "select" /\ Len(ix.shape) <= 1) =>
          IF SelectAllInRange \/ fill.ok
          THEN res = Ok(SelectShape,
                        Concat([k \in 1..Len(ix.data) |-> SelectRow(ix.data[k])]))
          ELSE res.kind = "err"

\* a select with a fill value where a negative index addresses a row and
\* another index is out of range: a row of the array next to a row of fill
C9_Witness ==
    /\ op = "select" /\ fill.ok /\ res.kind = "ok"
    /\ arr.shape = <<2, 2>> /\ ix.shape = <<2>>
    /\ ix.data[1] = 0 - 1 /\ ix.data[2] = 2
    /\ res.data = <<3, 4, 0, 0>>

\* the index array as a list of coordinates: one for an index of rank 0 or
\* 1, one per row of the last axis otherwise
CoordLen == IF ix.shape = <<>> THEN 1 ELSE ix.shape[Len(ix.shape)]
Coords ==
    IF Len(ix.shape) <= 1 THEN <<ix.data>>
    ELSE IF CoordLen = 0
    THEN [k \in 1..Product(SubSeq(ix.shape, 1, Len(ix.shape) - 1)) |-> <<>>]
    ELSE chunks(ix.data, CoordLen)
CoordsInRange ==
    /\ CoordLen <= Len(arr.shape)
    /\ \A k \in 1..Len(Coords) : \A d \in 1..CoordLen :
          InRange(Coords[k][d], arr.shape[d])
ResolvedCoord(k) == [d \in 1..CoordLen |-> Resolved(Coords[k][d], arr.shape[d])]
CoordsDistinct ==
    \A k, m \in 1..Len(Coords) : k # m => ResolvedCoord(k) # ResolvedCoord(m)

\* a rank-1 list of row indices, in range and without two resolving alike
RowIndicesInRange == Len(ix.shape) = 1 /\ SelectAllInRange
RowIndicesDistinct ==
    \A k, m \in 1..Len(ix.data) :
        k # m => Resolved(ix.data[k], row_count(arr)) # Resolved(ix.data[m], row_count(arr))

\* C7: for an in-range index without duplicate resolved positions
\* unpick(pick(idx, a), idx, a) is a, and for an in-range rank-1 index list
\* without duplicates unselect(select(idx, a), idx, a) is a: the extraction
\* succeeds and writing it back gives the same shape and elements.
C7_RoundTrip ==
    /\ (op = "pick" /\ CoordsInRange) => res.kind = "ok"
    /\ (op = "unpick_picked" /\ CoordsInRange /\ CoordsDistinct) => res = OkArr(arr)
    /\ (op = "select" /\ RowIndicesInRange) => res.kind = "ok"
    /\ (op = "unselect_selected" /\ RowIndicesInRange /\ RowIndicesDistinct) =>
          res = OkArr(arr)

\* two cells of a matrix picked with a rank-2 index, one coordinate written
\* with a negative component, and put back
C7_Witness ==
    /\ op = "unpick_picked" /\ res = OkArr(arr)
    /\ arr.shape = <<2, 2>> /\ ix.shape = <<2, 1>>
    /\ ix.data = <<0 - 1, 0>>
    /\ sub.data = <<3, 4, 1, 2>>

\* an index array of rank above 1 that holds no coordinate at all (an axis
\* of length 0) while an axis before the last is longer than 1 and the last
\* is 0: Value::unpick takes it for an index with duplicates
EmptyIndexRejected ==
    /\ Len(ix.shape) > 1 /\ CoordLen = 0 /\ Len(Coords) = 0
    /\ \E d \in 1..(Len(ix.shape) - 1) : ix.shape[d] > 1

\* the round trip of C7 for every other index, and the failure for these
RoundTripButEmptyIndex ==
    /\ (op = "unpick_picked" /\ CoordsInRange /\ CoordsDistinct) =>
          IF EmptyIndexRejected THEN res.kind = "err" ELSE res = OkArr(arr)
    /\ (op = "unselect_selected" /\ RowIndicesInRange /\ RowIndicesDistinct) =>
          res = OkArr(arr)

\* what the extraction with the same index returns from the target
PickOfTarget == pick(arr, ix.shape, ix.data, NoFill)
SelectOfTarget == select_impl(arr, ix.shape, ix.data, NoFill)

\* C5: unpick and unselect (as untake and undrop) fail whenever the edited
\* sub-array has not exactly the shape that pick or select with the same
\* index returns from the target; none returns a result built from a
\* sub-array of another shape.
C5_EditedShapeChecked ==
    /\ (op = "unpick" /\ PickOfTarget.kind = "ok" /\ sub.shape # PickOfTarget.shape)
          => res.kind # "ok"
    /\ (op = "unselect" /\ SelectOfTarget.kind = "ok"
          /\ sub.shape # SelectOfTarget.shape)
          => res.kind # "ok"

\* C6: unpick and unselect fail whenever two entries of the index array
\* resolve to the same position of the target, in any order of the entries
\* and also when one is written negative and the other non-negative.
C6_DuplicatesRejected ==
    /\ (op = "unpick" /\ CoordsInRange /\ ~ CoordsDistinct) => res.kind # "ok"
    /\ (op = "unselect" /\ RowIndicesInRange /\ ~ RowIndicesDistinct) => res.kind # "ok"

\* C8: rotate, windows, pick, unpick and unselect return a result or an
\* error value for every input; none of them aborts.
C8_NoAbort ==
    op \in {"rotate", "windows", "pick", "unpick_picked", "unselect_selected",
            "unpick", "unselect"}
        => res.kind \in {"ok", "err"}

(***************************************************************************)
(* Properties of reshape, rerank and their undoing.                        *)
(***************************************************************************)
\* the dims with the one negative entry replaced by n
Placed(dims, n) == [i \in 1..Len(dims) |-> IF dims[i] < 0 THEN n ELSE dims[i]]
\* the product of the entries of dims that are not negative
OtherProduct(dims) == Product([i \in 1..Len(dims) |-> IF dims[i] < 0 THEN 1 ELSE dims[i]])
\* ceil(total / other) with a fill value, floor(total / other) without
Quotient(total, other, has_fill) ==
    IF has_fill THEN (total + other - 1) \div other ELSE total \div other
\* the target shape C11 describes for dims with a negative entry
PlaceholderShape(shape, dims, has_fill) ==
    IF NegCount(dims) > 1 \/ OtherProduct(dims) = 0 THEN Err
    ELSE Ok(Placed(dims, Quotient(Product(shape), OtherProduct(dims), has_fill)), <<>>)

\* C11: in reshape, dims with exactly one negative entry resolve it to
\* ceil(total / product of the others) with a fill value and to floor of it
\* without, wherever the entry stands; more than one negative entry fails,
\* and so does one negative entry next to an entry 0.
C11_Placeholder ==
    /\ (op = "derive_shape" /\ NegCount(ix.data) >= 1) =>
          res = PlaceholderShape(shp, ix.data, fill.ok)
    /\ (op = "reshape" /\ NegCount(ix.data) >= 1) =>
          /\ PlaceholderShape(arr.shape, ix.data, fill.ok).kind = "err" => res.kind = "err"
          /\ res.kind = "ok" => res.shape = PlaceholderShape(arr.shape, ix.data, fill.ok).shape

\* C11 for arrays of fewer than 2^24 elements
PlaceholderBelowF32 ==
    /\ (op = "derive_shape" /\ NegCount(ix.data) >= 1 /\ Product(shp) < 2 ^ 24) =>
          res = PlaceholderShape(shp, ix.data, fill.ok)
    /\ (op = "reshape" /\ NegCount(ix.data) >= 1) =>
          /\ PlaceholderShape(arr.shape, ix.data, fill.ok).kind = "err" => res.kind = "err"
          /\ res.kind = "ok" => res.shape = PlaceholderShape(arr.shape, ix.data, fill.ok).shape

\* the old shape handed to unreshape is one number
ScalarForm == ix.shape = <<>>
\* the shape unrerank is to restore: the leading axes of the original shape
\* that the rerank had collapsed, then the axes of the array after the first
RestoredShape == UnrerankShape(arr.shape, ix.data[1], shp)

\* C12: unreshape and unrerank fail when the shape to restore has another
\* element count than the array, unreshape fails as well when the old shape
\* is a single number, and on success the array has the restored shape and
\* the same data.
C12_UndoShape ==
    /\ op = "unreshape" =>
          /\ (ScalarForm \/ Product(ix.data) # element_count(arr)) => res.kind = "err"
          /\ res.kind = "ok" => res = Ok(ix.data, arr.data)
    /\ (op = "unrerank" /\ ix.shape = <<>>) =>
          /\ Product(RestoredShape) # element_count(arr) => res.kind = "err"
          /\ res.kind = "ok" => res = Ok(RestoredShape, arr.data)

\* C12 for unreshape alone
UnreshapeChecked ==
    op = "unreshape" =>
        /\ (ScalarForm \/ Product(ix.data) # element_count(arr)) => res.kind = "err"
        /\ res.kind = "ok" => res = Ok(ix.data, arr.data)

(***************************************************************************)
(* Properties of rotate.                                                   *)
(***************************************************************************)
\* the offsets are a list no longer than the rank of the array
OffsetsFit == Len(ix.shape) <= 1 /\ Len(ix.data) <= rank(arr)
\* the element at each position after a cyclic rotation: position i of a
\* rotated axis of n rows holds what was at (i + k) mod n
RotatedData(a, by) ==
    LET T == Tuples(a.shape)
    IN [p \in 1..Len(T) |->
           a.data[1 + FlatIndex([d \in 1..Len(a.shape) |->
                                    IF d <= Len(by) THEN (T[p][d] + by[d]) % a.shape[d]
                                    ELSE T[p][d]], a.shape)]]
\* the element at each position after a shift: position i of a rotated axis
\* holds what was at i + k, the fill value v when there is no such row
ShiftedData(a, by, v) ==
    LET T == Tuples(a.shape)
    IN [p \in 1..Len(T) |->
           IF \A d \in 1..Len(by) : 0 <= T[p][d] + by[d] /\ T[p][d] + by[d] < a.shape[d]
           THEN a.data[1 + FlatIndex([d \in 1..Len(a.shape) |->
                                         IF d <= Len(by) THEN T[p][d] + by[d]
                                         ELSE T[p][d]], a.shape)]
           ELSE v]
\* an axis of length 0 stands after a rotated axis that is followed by
\* another offset: rotate splits the rows of the rotated axis into chunks
\* of length 0
EmptyRowsRotated ==
    \E d \in 1..(Len(ix.data) - 1) :
        /\ \A e \in 1..d : arr.shape[e] > 0
        /\ Product(SubSeq(arr.shape, d + 1, Len(arr.shape))) = 0

\* C13: without a fill value rotate by offsets no longer than the rank is a
\* cyclic left rotation along each rotated axis (row i is source row
\* (i + k) mod n, for negative and oversized k too), and rotating back by
\* the negated offsets gives the array again.
C13_CyclicRotation ==
    /\ (op = "rotate" /\ ~ fill.ok /\ OffsetsFit) =>
          res = Ok(arr.shape, RotatedData(arr, ix.data))
    /\ (op = "rotate_back" /\ OffsetsFit) => res = OkArr(arr)

\* C13 wherever rotate does not come upon rows of length 0
CyclicRotationOfRows ==
    /\ (op = "rotate" /\ ~ fill.ok /\ OffsetsFit /\ ~ EmptyRowsRotated) =>
          res = Ok(arr.shape, RotatedData(arr, ix.data))
    /\ (op = "rotate" /\ OffsetsFit /\ EmptyRowsRotated) => res.kind = "panic"
    /\ (op = "rotate_back" /\ OffsetsFit) => res = OkArr(arr)

\* C14: with a fill value rotate by offset k is a shift: row i of a rotated
\* axis is source row i + k when there is one and all fill otherwise, along
\* each rotated axis.
C14_FillShift ==
    (op = "rotate" /\ fill.ok /\ OffsetsFit) =>
        res = Ok(arr.shape, ShiftedData(arr, ix.data, fill.val))

\* C14 wherever rotate does not come upon rows of length 0
FillShiftOfRows ==
    (op = "rotate" /\ fill.ok /\ OffsetsFit /\ ~ EmptyRowsRotated) =>
        res = Ok(arr.shape, ShiftedData(arr, ix.data, fill.val))

(***************************************************************************)
(* Properties of take and drop.                                            *)
(***************************************************************************)
\* the amount of a take or drop along the leading axis alone
RowAmount == ix.data[1]
OneAmount == Len(ix.shape) <= 1 /\ Len(ix.data) = 1 /\ rank(arr) >= 1
\* rows from .. to-1 of the array
RowsOf(a, from, to) == Slice0(a.data, from * row_len(a), to * row_len(a))
\* what drop with the same amount returns from the array
DropOfArray == drop(arr, ix.data)

\* C15: for rank >= 1 and 0 <= n <= row_count, take([n]) is the first n
\* rows, drop([n]) the other row_count - n rows, and the two joined give the
\* array; take([-n]) and drop([-n]) do the same with the last n rows.
C15_TakeDropPartition ==
    /\ (op = "take" /\ OneAmount /\ Abs(RowAmount) <= row_count(arr)) =>
          /\ res = Ok(<<Abs(RowAmount)>> \o Tail(arr.shape),
                      IF RowAmount >= 0 THEN RowsOf(arr, 0, RowAmount)
                      ELSE RowsOf(arr, row_count(arr) + RowAmount, row_count(arr)))
          /\ DropOfArray.kind = "ok"
          /\ Tail(DropOfArray.shape) = Tail(res.shape)
          /\ DropOfArray.shape[1] + res.shape[1] = row_count(arr)
          /\ arr.data = IF RowAmount >= 0 THEN res.data \o DropOfArray.data
                        ELSE DropOfArray.data \o res.data
    /\ (op = "drop" /\ OneAmount /\ Abs(RowAmount) <= row_count(arr)) =>
          res = Ok(<<row_count(arr) - Abs(RowAmount)>> \o Tail(arr.shape),
                   IF RowAmount >= 0 THEN RowsOf(arr, RowAmount, row_count(arr))
                   ELSE RowsOf(arr, 0, row_count(arr) + RowAmount))

\* the last row of a two-row matrix taken with -1
C15_Witness ==
    /\ op = "take" /\ arr.shape = <<2, 2>> /\ ix.data = <<0 - 1>>
    /\ res = Ok(<<1, 2>>, <<3, 4>>)
    /\ DropOfArray = Ok(<<1, 2>>, <<1, 2>>)

\* C16: take([n]) with |n| above the row count r fails without a fill
\* value and with one returns |n| rows, the r rows followed (n > 0) or
\* preceded (n < 0) by all-fill rows; drop([n]) with |n| > r returns an
\* array of 0 rows, with or without a fill value.
C16_TakeDropBeyond ==
    /\ (op = "take" /\ OneAmount /\ Abs(RowAmount) > row_count(arr)) =>
          IF ~ fill.ok THEN res.kind = "err"
          ELSE res = Ok(<<Abs(RowAmount)>> \o Tail(arr.shape),
                        LET pad == Repeat(fill.val,
                                          (Abs(RowAmount) - row_count(arr)) * row_len(arr))
                        IN IF RowAmount > 0 THEN arr.data \o pad ELSE pad \o arr.data)
    /\ (op = "drop" /\ OneAmount /\ Abs(RowAmount) > row_count(arr)) =>
          res = Ok(<<0>> \o Tail(arr.shape), <<>>)

\* three rows taken from the back of a two-element list with a fill value
C16_Witness ==
    /\ op = "take" /\ fill.ok /\ arr.shape = <<2>> /\ ix.data = <<0 - 3>>
    /\ res = Ok(<<3>>, <<0, 1, 2>>)

(***************************************************************************)
(* Properties of keep and its undoing.                                     *)
(***************************************************************************)
\* the counts are a list of naturals, one for each row of the array
CountPerRow ==
    /\ rank(arr) >= 1 /\ Len(ix.shape) = 1 /\ Len(ix.data) = row_count(arr)
    /\ \A i \in 1..Len(ix.data) : ix.data[i] >= 0
BoolCounts == \A i \in 1..Len(ix.data) : ix.data[i] \in {0, 1}
\* the row numbers of the result: row i, counts[i] times, in order
RECURSIVE KeptRowNumbers(_, _)
KeptRowNumbers(counts, i) ==
    IF i > Len(counts) THEN <<>>
    ELSE Repeat(i, counts[i]) \o KeptRowNumbers(counts, i + 1)
KeptData(a, counts) ==
    LET ns == KeptRowNumbers(counts, 1)
    IN Concat([j \in 1..Len(ns) |-> RowsOf(a, ns[j] - 1, ns[j])])

\* C17: list_keep with one count per row of an array of rank >= 1 returns
\* Sum(counts) rows, row i of the array counts[i] times in a run and the
\* runs in the order of the rows; all-1 counts give the array, all-0 counts
\* no rows; on 0/1 counts the general loop computes what the 0/1 loop does.
C17_ListKeep ==
    (op = "list_keep" /\ CountPerRow) =>
        /\ res = Ok(<<Sum(ix.data)>> \o Tail(arr.shape), KeptData(arr, ix.data))
        /\ (\A i \in 1..Len(ix.data) : ix.data[i] = 1) => res = OkArr(arr)
        /\ (\A i \in 1..Len(ix.data) : ix.data[i] = 0) => res.shape[1] = 0
        /\ (BoolCounts /\ row_len(arr) > 0) =>
              KeepRows(ix.data, chunks_exact(arr.data, row_len(arr)), 1)
                  = KeepMask(ix.data, chunks_exact(arr.data, row_len(arr)), 1)

\* the rows of a matrix kept 0 and 3 times
C17_Witness ==
    /\ op = "list_keep" /\ arr.shape = <<2, 2>> /\ ix.data = <<0, 3>>
    /\ res = Ok(<<3, 2>>, <<3, 4, 3, 4, 3, 4>>)

\* the counts of an unkeep: a list of 0s and 1s
MaskCounts == Len(ix.shape) = 1 /\ BoolCounts
\* the number of 1s among the first i counts
OnesUpTo(i) == Cardinality({k \in 1..Min(i, Len(ix.data)) : ix.data[k] = 1})
\* row i of the result C18 describes: row i of into under a count 0 (or no
\* count), the next unused row of the transformed array under a count 1
UnkeptRow(i) ==
    IF i <= Len(ix.data) /\ ix.data[i] = 1
    THEN RowsOf(sub, OnesUpTo(i) - 1, OnesUpTo(i))
    ELSE RowsOf(arr, i - 1, i)

\* C18: unkeep with 0/1 counts returns as many rows as into has, row i of
\* into where counts[i] is 0 and the next unused row of the transformed
\* array where it is 1; so unkeep(counts, keep(counts, a), a) is a.
C18_Unkeep ==
    /\ (op = "unkeep" /\ MaskCounts /\ res.kind = "ok") =>
          /\ row_count(ArrOf(res)) = row_count(arr)
          /\ res.data = Concat([i \in 1..row_count(arr) |-> UnkeptRow(i)])
    /\ (op = "unkeep_kept" /\ MaskCounts) => res = OkArr(arr)

\* C18 when there is a count for every row of into, and into has rows
UnkeepWithCountPerRow ==
    /\ (op = "unkeep" /\ MaskCounts /\ res.kind = "ok"
            /\ Len(ix.data) >= row_count(arr) /\ row_count(arr) > 0) =>
          /\ res.shape = arr.shape
          /\ res.data = Concat([i \in 1..row_count(arr) |-> UnkeptRow(i)])
    /\ (op = "unkeep_kept" /\ MaskCounts
            /\ Len(ix.data) >= row_count(arr) /\ row_count(arr) > 0) => res = OkArr(arr)

\* fewer counts than rows: the rows of into without a count are left out
UnkeepWithFewCounts ==
    (op \in {"unkeep", "unkeep_kept"} /\ MaskCounts /\ res.kind = "ok"
        /\ 0 < Len(ix.data) /\ Len(ix.data) < row_count(arr)) =>
        row_count(ArrOf(res)) = Len(ix.data)

\* a keep of a two-element list with the one count 1 and the fill count 0,
\* undone: the second element is lost
FewCountsReached ==
    /\ op = "unkeep_kept" /\ arr = Arr(<<2>>, <<1, 2>>) /\ ix = Arr(<<1>>, <<1>>)
    /\ sub = Arr(<<1>>, <<1>>) /\ res = Ok(<<1>>, <<1>>)
FewCountsNotReached == ~ FewCountsReached

\* the cases in which C19 has unkeep fail
NonBoolCount == \E i \in 1..Len(ix.data) : ix.data[i] > 1
ScalarCounts == ix.shape = <<>>
TooFewRows == row_count(sub) < OnesUpTo(Len(ix.data))
RowShapeDiffers ==
    /\ Tail(sub.shape) # Tail(arr.shape)
    /\ \E i \in 1..Min(Len(ix.data), row_count(arr)) :
          ix.data[i] = 1 /\ OnesUpTo(i) <= row_count(sub)

\* C19: unkeep fails, and returns no result, when a count is above 1, when
\* the counts are a scalar, when the transformed array has fewer rows than
\* there are 1s among the counts, and when a row of the transformed array
\* has another shape than the row of into it is to replace.
C19_UnkeepFails ==
    (op = "unkeep" /\ (NonBoolCount \/ ScalarCounts \/ TooFewRows \/ RowShapeDiffers)) =>
        res.kind = "err"

\* C19 with the 1s counted among the counts that have a row of into
UnkeepFailsWithinRows ==
    (op = "unkeep"
        /\ (NonBoolCount \/ ScalarCounts \/ RowShapeDiffers
               \/ row_count(sub) < OnesUpTo(Min(Len(ix.data), row_count(arr))))) =>
        res.kind = "err"

\* an unkeep with a third count 1 that has no row of into: the transformed
\* array has one row for two 1s, and the call returns a result
SurplusCountReached ==
    /\ op = "unkeep" /\ arr = Arr(<<2>>, <<1, 2>>) /\ ix = Arr(<<3>>, <<0, 1, 1>>)
    /\ sub = Arr(<<1>>, <<11>>) /\ res = Ok(<<2>>, <<1, 11>>)
SurplusCountNotReached == ~ SurplusCountReached

(***************************************************************************)
(* Properties of windows.                                                  *)
(***************************************************************************)
\* the sizes are a list; one of them is 0, or larger in magnitude than its
\* axis, or there are more of them than axes
SizesGiven == Len(ix.shape) <= 1
BadSizes ==
    \/ Len(ix.data) > rank(arr)
    \/ \E i \in 1..Len(ix.data) : ix.data[i] = 0
    \/ \E i \in 1..Min(Len(ix.data), rank(arr)) : Abs(ix.data[i]) > arr.shape[i]
\* the size of window axis i: a negative size s stands for dim + 1 + s
SizeOf(i) == IF ix.data[i] >= 0 THEN ix.data[i] ELSE arr.shape[i] + 1 + ix.data[i]
WindowsShape ==
    [i \in 1..Len(ix.data) |-> arr.shape[i] - SizeOf(i) + 1]
        \o [i \in 1..Len(ix.data) |-> SizeOf(i)]
        \o SubSeq(arr.shape, Len(ix.data) + 1, rank(arr))
\* the source position of the result cell at (corner, offset, trailing)
WindowSource(cell) ==
    [d \in 1..rank(arr) |->
        IF d <= Len(ix.data) THEN cell[d] + cell[Len(ix.data) + d]
        ELSE cell[Len(ix.data) + d]]
WindowsData ==
    LET T == Tuples(WindowsShape)
    IN [p \in 1..Len(T) |-> arr.data[1 + FlatIndex(WindowSource(T[p]), arr.shape)]]

\* C20: windows with k sizes, k <= rank and 1 <= |size| <= dim on each of
\* the first k axes, a negative size s standing for dim + 1 + s, returns
\* shape [dim - size + 1] ++ [size] ++ shape[k..] whose cell at (corner,
\* offset, trailing) is the source element at (corner + offset, trailing);
\* a size 0, a size above its axis and more sizes than axes are errors.
C20_Windows ==
    (op = "windows" /\ SizesGiven) =>
        IF BadSizes THEN res.kind = "err"
        ELSE res = Ok(WindowsShape, WindowsData)

\* C20 for arrays that have elements; of an array without any, windows
\* with sizes that fit aborts
WindowsOfElements ==
    (op = "windows" /\ SizesGiven) =>
        IF BadSizes THEN res.kind = "err"
        ELSE IF arr.data = <<>> THEN res.kind = "panic"
        ELSE res = Ok(WindowsShape, WindowsData)

\* windows of width 2 along the rows of a 2x2 matrix, the size written -1
WindowsReached ==
    /\ op = "windows" /\ arr.shape = <<2, 2>> /\ ix.data = <<1, 0 - 1>>
    /\ res = Ok(<<2, 1, 1, 2>>, <<1, 2, 3, 4>>)
WindowsNotReached == ~ WindowsReached

(***************************************************************************)
(* C21, C22: find                                                          *)
(***************************************************************************)
\* a list searched for in a list at least as long
ListInList ==
    /\ op = "find"
    /\ rank(sub) = 1 /\ rank(arr) = 1
    /\ Len(arr.data) >= Len(sub.data)

\* the searched list holds the searched-for list from position c (0-based)
MatchesAt(c) == SubSeq(arr.data, c + 1, c + Len(sub.data)) = sub.data

\* C21: find of a list of length m in a list of length n >= m returns a
\* boolean list of length n - m + 1 whose entry c is 1 exactly when the
\* searched list holds the searched-for list from position c; find of
\* [2,3] in [1,2,3,4,2,3] is [0,1,0,0,1]
C21_FindList ==
    /\ ListInList =>
          /\ res.kind = "ok"
          /\ res.shape = <<Len(arr.data) - Len(sub.data) + 1>>
          /\ Len(res.data) = Len(arr.data) - Len(sub.data) + 1
          /\ \A c \in 0..(Len(arr.data) - Len(sub.data)) :
                res.data[c + 1] = (IF MatchesAt(c) THEN 1 ELSE 0)
    /\ (op = "find" /\ sub = Arr(<<2>>, <<2, 3>>)
            /\ arr = Arr(<<6>>, <<1, 2, 3, 4, 2, 3>>))
          => res = Ok(<<5>>, <<0, 1, 0, 0, 1>>)

\* what find does of a non-empty list in a list at least as long: the
\* result has the length of the searched list, its first n - m + 1 entries
\* tell where the searched-for list is held, and the others are 0
FindListPadded ==
    (ListInList /\ Len(sub.data) >= 1) =>
        /\ res.kind = "ok"
        /\ res.shape = <<Len(arr.data)>>
        /\ \A c \in 0..(Len(arr.data) - 1) :
              res.data[c + 1] = (IF c <= Len(arr.data) - Len(sub.data) /\ MatchesAt(c)
                                 THEN 1 ELSE 0)

FindListReached ==
    /\ ListInList /\ Len(sub.data) >= 2
    /\ res.kind = "ok" /\ \E c \in 1..Len(res.data) : res.data[c] = 1

FindListNotReached == ~FindListReached

\* the searched-for array does not fit the searched one: its rank is
\* greater, or one of its dimensions exceeds the dimension of the searched
\* array at the same distance from the last
DoesNotFit ==
    \/ rank(sub) > rank(arr)
    \/ \E k \in 1..Min(rank(sub), rank(arr)) :
          sub.shape[rank(sub) + 1 - k] > arr.shape[rank(arr) + 1 - k]

\* C22: without a fill value, find of an array that does not fit the
\* searched one does not fail: the result has the shape of the searched
\* array and every element of it is 0
C22_FindNoFill ==
    (op = "find" /\ ~fill.ok /\ DoesNotFit) =>
        /\ res.kind = "ok"
        /\ res.shape = arr.shape
        /\ Len(res.data) = Product(arr.shape)
        /\ \A i \in 1..Len(res.data) : res.data[i] = 0

C22_Witness ==
    /\ op = "find" /\ ~fill.ok /\ DoesNotFit
    /\ rank(sub) <= rank(arr)
    /\ res.kind = "ok" /\ Len(res.data) >= 2

(***************************************************************************)
(* C23, C24: member, index_of, progressive_index_of                        *)
(***************************************************************************)
\* row i (0-based) of an array as an array; a scalar is its own one row
RowAt(a, i) == IF rank(a) = 0 THEN a ELSE Row(a, i)

\* the positions (0-based) of the rows of arr equal to row e of sub
EqualRows(e) == {i \in 0..(row_count(arr) - 1) : RowAt(arr, i) = RowAt(sub, e)}

Least(S) == CHOOSE x \in S : \A y \in S : x <= y

RowsDistinct(a) ==
    \A i, j \in 0..(row_count(a) - 1) : RowAt(a, i) = RowAt(a, j) => i = j

\* one entry per row of sub
PerRow ==
    /\ res.kind = "ok"
    /\ res.shape = SubSeq(sub.shape, 1, Min(1, rank(sub)))
    /\ Len(res.data) = row_count(sub)

\* index_of gives each row of sub the smallest position of an equal row of
\* arr, or row_count(arr); member gives it 1 exactly when arr has an equal row
FirstEqualRow ==
    /\ op = "index_of" =>
          /\ PerRow
          /\ \A e \in 0..(row_count(sub) - 1) :
                res.data[e + 1] = (IF EqualRows(e) = {} THEN row_count(arr)
                                   ELSE Least(EqualRows(e)))
    /\ op = "member" =>
          /\ PerRow
          /\ \A e \in 0..(row_count(sub) - 1) :
                res.data[e + 1] = (IF EqualRows(e) = {} THEN 0 ELSE 1)

\* C23: for arrays of equal rank, index_of returns for each row of elems the
\* smallest row position of `of` holding an equal row, or row_count(of) when
\* none does (equal query rows receive the same position), and member is 1
\* for exactly the rows of elems that equal some row of `of`; for an array a
\* of pairwise distinct rows member(a, a) is all 1 and index_of(a, a) is
\* [0, 1, ..., row_count - 1]
C23_RowSearch ==
    (op \in {"index_of", "member"} /\ rank(sub) = rank(arr)) =>
        /\ FirstEqualRow
        /\ (sub = arr /\ RowsDistinct(arr)) =>
              \A e \in 0..(row_count(sub) - 1) :
                  res.data[e + 1] = (IF op = "member" THEN 1 ELSE e)

\* C23 where rows of equally many elements have one shape: the ranks are
\* below 3, or the rows of the two arrays have the same shape
RowSearchOfOneRowShape ==
    (op \in {"index_of", "member"} /\ rank(sub) = rank(arr)
        /\ (rank(sub) >= 3 => Tail(sub.shape) = Tail(arr.shape))) =>
        /\ FirstEqualRow
        /\ (sub = arr /\ RowsDistinct(arr)) =>
              \A e \in 0..(row_count(sub) - 1) :
                  res.data[e + 1] = (IF op = "member" THEN 1 ELSE e)

RowSearchReached ==
    /\ op = "index_of" /\ rank(sub) = 2 /\ sub.shape = arr.shape
    /\ res.kind = "ok" /\ res.data = <<1, 2>>

RowSearchNotReached == ~RowSearchReached

\* rows of the same elements but of another shape count as equal
ReshapedRowFound ==
    /\ op = "member" /\ rank(sub) = 3 /\ rank(arr) = 3
    /\ Tail(sub.shape) # Tail(arr.shape)
    /\ res.kind = "ok" /\ res.data = <<1>>

ReshapedRowNotFound == ~ReshapedRowFound

\* the number of rows of sub up to row e (0-based) that equal row e
QueryNumber(e) == Cardinality({d \in 0..e : RowAt(sub, d) = RowAt(sub, e)})

\* the j-th smallest (j >= 1) of a set of at least j numbers
Nth(S, j) == CHOOSE p \in S : Cardinality({q \in S : q < p}) = j - 1

\* C24: for arrays of equal rank, progressive_index_of never reports the
\* same position of `of` twice: every value smaller than row_count(of)
\* occurs at most once in the result, the j-th query row equal to a given
\* row receives the position of the j-th occurrence of that row in `of`,
\* and the queries beyond the number of occurrences receive row_count(of)
C24_Progressive ==
    (op = "progressive_index_of" /\ rank(sub) = rank(arr)) =>
        /\ PerRow
        /\ \A d, e \in 0..(row_count(sub) - 1) :
              (res.data[d + 1] = res.data[e + 1] /\ res.data[e + 1] < row_count(arr))
                  => d = e
        /\ \A e \in 0..(row_count(sub) - 1) :
              res.data[e + 1] =
                  (IF QueryNumber(e) <= Cardinality(EqualRows(e))
                   THEN Nth(EqualRows(e), QueryNumber(e))
                   ELSE row_count(arr))

C24_Witness ==
    /\ op = "progressive_index_of" /\ rank(sub) = rank(arr)
    /\ res.kind = "ok"
    /\ \E d, e \in 0..(row_count(sub) - 1) :
          /\ d < e /\ RowAt(sub, d) = RowAt(sub, e)
          /\ res.data[d + 1] < res.data[e + 1]
          /\ res.data[e + 1] < row_count(arr)
    /\ \E e \in 0..(row_count(sub) - 1) :
          EqualRows(e) # {} /\ res.data[e + 1] = row_count(arr)

(***************************************************************************)
(* C25: rerank                                                             *)
(***************************************************************************)
\* rerank was applied with the whole number r
RerankedBy(r) == op = "rerank" /\ ix = Arr(<<>>, <<r>>)

\* the first n axes merged into one
Merged(shape, n) ==
    <<Product(SubSeq(shape, 1, n))>> \o SubSeq(shape, n + 1, Len(shape))

\* C25: rerank(r) never changes the data or the element count; for
\* 0 <= r < rank the shape becomes [product(shape[0..rank-r])] ++
\* shape[rank-r..], for r >= rank r - rank + 1 axes of size 1 are
\* prepended, and in both cases the rank becomes r + 1; for r < 0 of
\* magnitude m <= rank the shape becomes [product(shape[0..m])] ++
\* shape[m..], and for m > rank rerank fails and leaves the shape unchanged
C25_Rerank ==
    \A r \in IdxVals :
        RerankedBy(r) =>
            /\ (r >= 0 \/ 0 - r <= rank(arr)) =>
                  /\ res.kind = "ok"
                  /\ res.data = arr.data
                  /\ Len(res.data) = Product(res.shape)
            /\ (r >= 0 /\ r < rank(arr)) =>
                  /\ res.shape = Merged(arr.shape, rank(arr) - r)
                  /\ Len(res.shape) = r + 1
            /\ r >= rank(arr) =>
                  /\ res.shape = Repeat(1, r - rank(arr) + 1) \o arr.shape
                  /\ Len(res.shape) = r + 1
            /\ (r < 0 /\ 0 - r <= rank(arr)) => res.shape = Merged(arr.shape, 0 - r)
            /\ (r < 0 /\ 0 - r > rank(arr)) => res.kind = "err"

C25_Witness ==
    /\ RerankedBy(0) /\ rank(arr) = 2 /\ Len(arr.data) >= 2
    /\ res.kind = "ok" /\ res.shape = <<Len(arr.data)>>

(***************************************************************************)
(* C26, C27: CowSlice::truncate and CowSlice::slice                        *)
(***************************************************************************)
\* the first n elements of a sequence, all of it when it is shorter
Prefix(s, n) == SubSeq(s, 1, Min(n, Len(s)))

\* C26: truncate(len) only shrinks the visible window: afterwards the handle
\* shows the first min(len, old length) of the elements it showed, and no
\* other handle's contents change; the elements cut off do not become
\* visible again through that handle: a later extend or modify through a
\* handle whose store holds more than its window shows f applied to the
\* visible elements alone (after truncate to k, extending with xs shows
\* old[0..k] ++ xs)
C26_Truncate ==
    [][/\ \A h \in Handles, len \in 0..MaxLen :
             truncate(h, len) =>
                 /\ View(hs', st', h) = Prefix(View(hs, st, h), len)
                 /\ hs'[h].start = hs[h].start /\ hs'[h].end <= hs[h].end
                 /\ \A g \in Handles \ {h} :
                       Live(g) => /\ hs'[g] # NoHandle
                                  /\ View(hs', st', g) = View(hs, st, g)
       /\ (cowLast'.op = "modify" /\ ~ IsFull(cowLast'.h)) =>
             LET h == cowLast'.h
             IN /\ View(hs', st', h) = ApplyF(cowLast'.f, View(hs, st, h))
                /\ Hidden(hs', st', h) = <<(<<>>), (<<>>)>>
       /\ (cowLast.op = "truncate" /\ cowLast'.op = "modify"
              /\ cowLast'.h = cowLast.h /\ cowLast'.f.k = "extend") =>
             View(hs', st', cowLast.h) = View(hs, st, cowLast.h) \o cowLast'.f.xs]_vars

\* C26 witness: a handle truncated below the length of its store was
\* extended, and shows the kept element followed by the appended one
C26_Witness ==
    /\ cowLast.op = "modify" /\ cowLast.f = [k |-> "extend", xs |-> <<0>>]
    /\ as_slice(cowLast.h) = <<1, 0>>
    /\ \E g \in Handles : g # cowLast.h /\ Live(g) /\ as_slice(g) = <<1, 2>>

\* the bounds of a range resolved against a window of n elements
RelStart(r) == IF r.sb = "Included" THEN r.s ELSE IF r.sb = "Excluded" THEN r.s + 1 ELSE 0
RelEnd(r, n) == IF r.eb = "Included" THEN r.e + 1 ELSE IF r.eb = "Excluded" THEN r.e ELSE n

\* the window of every handle lies within its store
WindowsWithinStore ==
    \A h \in Handles :
        Live(h) => /\ 0 <= hs[h].start /\ hs[h].start <= hs[h].end
                   /\ hs[h].end <= Len(st[hs[h].data].elems)

\* C27: slice(range) on a handle showing n elements succeeds exactly when
\* the resolved bounds satisfy start <= end <= n, counted within the
\* handle's window and not within its store; it then returns a handle
\* showing the elements start..end of the handle and leaves the handle
\* unchanged; any other range is rejected.  The window of every handle
\* any sequence of operations produces satisfies start <= end <= length
\* of its store
C27_Slice ==
    /\ []WindowsWithinStore
    /\ [][\A h, h2 \in Handles, r \in Ranges :
             slice(h, r, h2) =>
                 LET n == Len(View(hs, st, h))
                 IN IF RelStart(r) <= RelEnd(r, n) /\ RelEnd(r, n) <= n
                    THEN /\ cowLast'.op = "slice"
                         /\ hs'[h2] # NoHandle
                         /\ View(hs', st', h2)
                               = SubSeq(View(hs, st, h), RelStart(r) + 1, RelEnd(r, n))
                         /\ View(hs', st', h) = View(hs, st, h)
                         /\ hs'[h].start = hs[h].start /\ hs'[h].end = hs[h].end
                    ELSE /\ cowLast'.op = "slice_panic"
                         /\ hs' = hs /\ st' = st]_vars

\* C27 witness: a slice of a window that ends before its store does was
\* taken up to the end of the window
C27_Witness ==
    /\ cowLast.op = "slice"
    /\ as_slice(cowLast.h) = <<1>>
    /\ \E g \in Handles :
          /\ g # cowLast.h /\ Live(g) /\ hs[g].data = hs[cowLast.h].data
          /\ hs[g].end = 1 /\ Len(st[hs[g].data].elems) = 2

(***************************************************************************)
(* C28, C30: what unselect and unpick write                                *)
(***************************************************************************)
\* the row positions of the target the index list names
NamedRows == {Resolved(ix.data[k], row_count(arr)) : k \in 1..Len(ix.data)}

\* the result has the shape of the target, the row at each resolved index
\* is the edited row of that index, every other row is the target's
RowsWritten ==
    /\ res.shape = arr.shape
    /\ Len(res.data) = Len(arr.data)
    /\ \A k \in 1..Len(ix.data) :
          RowAt(ArrOf(res), Resolved(ix.data[k], row_count(arr))) = RowAt(sub, k - 1)
    /\ \A p \in 0..(row_count(arr) - 1) :
          p \notin NamedRows => RowAt(ArrOf(res), p) = RowAt(arr, p)

\* C28: a successful unselect(edited, indices, into) with a rank-1 index
\* list returns an array of the shape of `into` in which the row at each
\* resolved index position equals the corresponding row of `edited` and
\* every row at a position no index names is that row of `into`
C28_UnselectRows ==
    (op = "unselect" /\ Len(ix.shape) = 1 /\ res.kind = "ok") => RowsWritten

\* the rows of the edited array have the shape of the rows of the target
EditedRowsFit ==
    IF rank(sub) = 0 \/ rank(arr) = 0
    THEN Len(sub.data) = Len(ix.data) * row_len(arr) /\ rank(sub) = rank(arr)
    ELSE Tail(sub.shape) = Tail(arr.shape)

\* C28 for edited rows of the target's row shape and indices that resolve
\* to different rows
UnselectRowsOfFittingEdit ==
    (op = "unselect" /\ Len(ix.shape) = 1 /\ res.kind = "ok"
        /\ EditedRowsFit /\ RowIndicesDistinct) => RowsWritten

UnselectRowsReached ==
    /\ op = "unselect" /\ Len(ix.shape) = 1 /\ res.kind = "ok"
    /\ EditedRowsFit /\ RowIndicesDistinct
    /\ arr.shape = <<2, 2>> /\ ix.data = <<0 - 1>>
    /\ res.data = <<1, 2, 11, 12>>

UnselectRowsNotReached == ~UnselectRowsReached

\* the flat positions (0-based) of the cell of the target the index addresses
AddressedCells == PickCellStart..(PickCellStart + Product(PickCellShape) - 1)

\* only the addressed cells were written, with the edited elements
CellsWritten ==
    /\ res.shape = arr.shape
    /\ Len(res.data) = Len(arr.data)
    /\ \A k \in 0..(Len(arr.data) - 1) :
          res.data[k + 1] = (IF k \in AddressedCells
                             THEN sub.data[k - PickCellStart + 1]
                             ELSE arr.data[k + 1])

\* the index has no more components than the target has axes, each within
\* [-len, len) of its axis
IndexAddressesCell == PickIndexOk /\ PickAllInRange

\* C30: unpick with a rank-0 or rank-1 index writes only the cells of
\* `into` of the sub-array the resolved index addresses and leaves every
\* other element unchanged; when an index component lies outside
\* [-len, len) of its axis, or the index has more components than `into`
\* has axes, unpick fails: it neither writes a cell nor returns `into`
\* unchanged
C30_UnpickCells ==
    (op = "unpick" /\ Len(ix.shape) <= 1) =>
        IF IndexAddressesCell
        THEN res.kind = "ok" => CellsWritten
        ELSE res.kind # "ok"

\* C30 for the indices that address a cell
UnpickCellsInRange ==
    (op = "unpick" /\ Len(ix.shape) <= 1 /\ IndexAddressesCell) =>
        /\ res.kind = "ok" => CellsWritten
        /\ res.kind = "ok" <=> sub.shape = PickCellShape

UnpickCellsReached ==
    /\ op = "unpick" /\ Len(ix.shape) = 1 /\ IndexAddressesCell
    /\ arr.shape = <<2, 2>> /\ ix.data = <<0 - 1>>
    /\ res.kind = "ok" /\ res.data = <<1, 2, 11, 12>>

UnpickCellsNotReached == ~UnpickCellsReached

\* an index beyond its axis: unpick returns the target, nothing written
OutOfRangeUnpicked ==
    /\ op = "unpick" /\ Len(ix.shape) <= 1 /\ PickIndexOk /\ ~ PickAllInRange
    /\ res = OkArr(arr)

OutOfRangeNotUnpicked == ~OutOfRangeUnpicked

(***************************************************************************)
(* C29: Value::unkeep on every pair of variants                            *)
(***************************************************************************)
\* unkeep was applied to a list of counts
UnkeptValue == op = "unkeep_value" /\ rank(ix) = 1

\* the two variants are a number and a byte array
Promoted == {sub.type, arr.type} = {"Num", "Byte"}

\* C29: Value-level unkeep reaches the unkeep of the concrete array for
\* every variant when the transformed value and the target have the same
\* variant (numeric, byte, complex, character, boxed): no such pair ends
\* in a type mismatch, and a type mismatch occurs only for two different
\* variants of which neither is boxed and to which no numeric promotion
\* applies
C29_UnkeepVariants ==
    UnkeptValue =>
        /\ sub.type = arr.type =>
              /\ res.kind # "type_mismatch"
              /\ res = IntoValue(arr.type, unkeep(sub, ix.data, arr))
        /\ res.kind = "type_mismatch" =>
              /\ sub.type # arr.type
              /\ sub.type # "Box" /\ arr.type # "Box"
              /\ ~ Promoted

\* C29 for every pair but two complex arrays
UnkeepVariantsButComplex ==
    (UnkeptValue /\ ~ (sub.type = "Complex" /\ arr.type = "Complex")) =>
        /\ sub.type = arr.type =>
              /\ res.kind # "type_mismatch"
              /\ res = IntoValue(arr.type, unkeep(sub, ix.data, arr))
        /\ res.kind = "type_mismatch" <=>
              /\ sub.type # arr.type
              /\ sub.type # "Box" /\ arr.type # "Box"
              /\ ~ Promoted

\* two complex arrays end in a type mismatch
ComplexMismatch ==
    (UnkeptValue /\ sub.type = "Complex" /\ arr.type = "Complex") =>
        res.kind = "type_mismatch"

UnkeepVariantsReached ==
    /\ UnkeptValue /\ sub.type = "Char" /\ arr.type = "Box"
    /\ res.kind = "ok" /\ res.type = "Box"
    /\ \E i \in 1..Len(res.data) : res.data[i] = <<"Char", 11>>

UnkeepVariantsNotReached == ~UnkeepVariantsReached

====
